---------------------------- MODULE Spec2Model ----------------------------
(***************************************************************************)
(* ATP exam scheduling: the per-student time-slot scheduler of             *)
(* utils/resolve_slots.py and the exact room optimizer of                  *)
(* utils/gurobi_room_optimizer.py.                                         *)
(*                                                                         *)
(* Time is counted in minutes.  A datetime is the number of minutes since  *)
(* 00:00 of day 0, and day 0 is a Monday, so that weekday = day % 7 with   *)
(* Monday = 0 as datetime.weekday() has it.  A time of day is the number   *)
(* of minutes since midnight.                                              *)
(***************************************************************************)
EXTENDS Integers, Sequences, FiniteSets, TLC

VARIABLES
    df,                 \* schedule_all: the request table, a sequence of rows
    timetable,          \* schedule_all: student id -> list of slots
    today,              \* the date datetime.today() gives during the run
    pc,                 \* position in schedule_all
    i,                  \* number of rows the scheduling loop has processed
    results,            \* schedule_all: the list of output rows
    exams_for_student,  \* schedule_all: student id -> committed (start, end)
    raised,             \* the exception that left schedule_all, or NoExc
    sched_runs,         \* number of schedule_all calls made with the timetable
    exam_groups,        \* build_and_solve_ilp: the list of exam groups
    rooms_df,           \* build_and_solve_ilp: the room table
    objective,          \* build_and_solve_ilp: the objective's name
    tolerance,          \* build_and_solve_ilp: time_overlap_tolerance_minutes
    ilp_pc,             \* position in build_and_solve_ilp
    model,              \* the model built: room_locations and room_info
    ilp_result,         \* the dict build_and_solve_ilp returns
    ilp_raised,         \* the exception that left build_and_solve_ilp, or NoExc
    solver,             \* what model.optimize() ended with: status, SolCount, X
    exam_df,            \* Pipeline2: the table of scheduled exams
    liv25_rooms_df,     \* Pipeline2: the room inventory table, or NoDataFrame
    use_ilp,            \* Pipeline2: the exact optimizer was asked for
    groups,             \* the list group_exam_timings returns
    room_search_results, \* the list search_rooms_in_liv25 returns
    applied_map,        \* the assignment_map of the ilp_result that is applied
    asg_pc,             \* position in the room assignment
    asg_i,              \* number of rows the assignment loop has processed
    asg_out,            \* per row: the assigned room and the assignment status
    room_map,           \* greedy: (start, end) -> available rooms
    room_assignments,   \* greedy: (start, end, room) -> student ids
    time_to_rooms,      \* apply: (start, end) -> assigned rooms
    room_capacities,    \* apply: location -> capacity
    room_usage,         \* apply: (start, end, room) -> student ids
    GUROBI_AVAILABLE,   \* pipeline2: the optimizer module could be imported
    ilp_status,         \* the status of the ilp_result that is applied
    df_times,           \* the two time columns of the table once converted
    runs,               \* number of greedy runs started on the table
    first_out           \* what the first greedy run wrote

sched_vars == <<df, timetable, today, pc, i, results, exams_for_student, raised,
                sched_runs>>

ilp_vars == <<exam_groups, rooms_df, objective, tolerance, ilp_pc, model,
              ilp_result, ilp_raised, solver>>

asg_vars == <<exam_df, liv25_rooms_df, use_ilp, groups, room_search_results,
              applied_map, asg_pc, asg_i, asg_out, room_map, room_assignments,
              time_to_rooms, room_capacities, room_usage, GUROBI_AVAILABLE,
              ilp_status, df_times, runs, first_out>>

(* What a run of the scheduler leaves alone, what a run of the optimizer,    *)
(* and what a run of the room assignment                                      *)
not_sched == <<ilp_vars, asg_vars>>

not_ilp == <<sched_vars, asg_vars>>

not_asg == <<sched_vars, ilp_vars>>

------------------------------------------------------------------------------
(* Bounds of the model *)

MaxRows == 2

MaxGroups == 2

MaxExams == 2

------------------------------------------------------------------------------
(* datetime arithmetic *)

MinutesPerDay == 24 * 60

Max(a, b) == IF a >= b THEN a ELSE b

Min(a, b) == IF a <= b THEN a ELSE b

Abs(a) == IF a >= 0 THEN a ELSE 0 - a

\* datetime.date(): the day number
DateOf(dt) == dt \div MinutesPerDay

\* datetime.time(): minutes since midnight
TimeOf(dt) == dt % MinutesPerDay

\* datetime.combine(date, time)
Combine(d, t) == d * MinutesPerDay + t

\* datetime.weekday(): Monday is 0
Weekday(dt) == DateOf(dt) % 7

\* time(h, m)
Time(h, m) == h * 60 + m

\* strftime("%Y-%m-%d %H:%M"): the date, the hour and the minute
Strftime(dt) == <<DateOf(dt), TimeOf(dt) \div 60, TimeOf(dt) % 60>>

\* The empty string of a cell
Blank == <<>>

\* Python's None
None == "<None>"

NoExc == "<no exception>"

------------------------------------------------------------------------------
(* GENERIC UTILITIES *)

DAYMAP == [d \in {"M", "T", "W", "R", "F"} |->
             CASE d = "M" -> 0 [] d = "T" -> 1 [] d = "W" -> 2
               [] d = "R" -> 3 [] d = "F" -> 4]

(* A date or time cell is a record [kind, v]:                               *)
(*   kind "blank": the empty cell; "garbage": text dateutil rejects;        *)
(*   kind "value": a date (v the day number) or a time (v minutes).         *)
(* parse_datetime is applied to f"{date} {time}".  It returns [exc, none,   *)
(* dt]: exc when parsing raises ValueError, none when the string is blank  *)
(* and the function returns None, and otherwise the datetime dt; dateutil  *)
(* fills a missing date with today's date and a missing time with 00:00.   *)
parse_datetime(date, time, tdy) ==
    IF date.kind = "blank" /\ time.kind = "blank"
    THEN [exc |-> FALSE, none |-> TRUE, dt |-> 0]
    ELSE IF date.kind = "garbage" \/ time.kind = "garbage"
    THEN [exc |-> TRUE, none |-> FALSE, dt |-> 0]
    ELSE [exc |-> FALSE, none |-> FALSE,
          dt  |-> Combine(IF date.kind = "value" THEN date.v ELSE tdy,
                          IF time.kind = "value" THEN time.v ELSE 0)]

\* parse_time of a class start cell: the time of day, or an exception
parse_time(time) ==
    IF time.kind = "value" THEN [exc |-> FALSE, t |-> time.v]
    ELSE [exc |-> TRUE, t |-> 0]

ToleranceMinutes == 5

times_close(t1, t2) == Abs(t1 - t2) * 60 <= ToleranceMinutes * 60

\* Mutant: the test of the two crossed comparisons
overlaps_Crossed(s1, e1, s2, e2) == s1 < e2 /\ s2 < e1

overlaps(s1, e1, s2, e2) == Max(s1, s2) < Min(e1, e2)

------------------------------------------------------------------------------
(* TAG TIMETABLE WITH CRN FROM CSV *)

(* A timetable slot is [wd, st, et, crn]; crn is None until tagged.  A row's *)
(* "Days the class is offered" is the sequence of its comma-separated,       *)
(* stripped and upper-cased tokens.                                          *)

\* The slots with the first slot matching weekday and class start retagged
TagFirstMatch(slots, wd, class_start, crn) ==
    LET hits == {k \in 1..Len(slots) :
                    slots[k].wd = wd /\ times_close(slots[k].st, class_start)}
    IN  IF hits = {} THEN slots
        ELSE LET k == CHOOSE m \in hits : \A n \in hits : m <= n
             IN  [slots EXCEPT ![k].crn = crn]

RECURSIVE TagLetters(_, _, _, _, _)
TagLetters(slots, day_letters, n, class_start, crn) ==
    IF n > Len(day_letters) THEN slots
    ELSE IF day_letters[n] \notin DOMAIN DAYMAP
    THEN TagLetters(slots, day_letters, n + 1, class_start, crn)
    ELSE TagLetters(TagFirstMatch(slots, DAYMAP[day_letters[n]], class_start, crn),
                    day_letters, n + 1, class_start, crn)

\* The body of the loop over the rows, for one row
TagRow(tt, row) ==
    IF row.sid \notin DOMAIN tt THEN tt
    ELSE IF parse_time(row.class_start).exc THEN tt
    ELSE [tt EXCEPT ![row.sid] =
             TagLetters(tt[row.sid], row.days, 1,
                        parse_time(row.class_start).t, row.crn)]

RECURSIVE TagRows(_, _, _)
TagRows(rows, tt, n) ==
    IF n > Len(rows) THEN tt ELSE TagRows(rows, TagRow(tt, rows[n]), n + 1)

tag_slots_with_crn(rows, tt) == TagRows(rows, tt, 1)

------------------------------------------------------------------------------
(* CHECK CONFLICT WITH STUDENT TIMETABLE *)

\* Mutant: every tagged slot is taken for the exam's own class
timetable_conflict_AnyTag(slots, start_dt, end_dt, ignore_crn) ==
    \E k \in 1..Len(slots) :
        /\ slots[k].wd = Weekday(start_dt)
        /\ slots[k].crn = None
        /\ overlaps(start_dt, end_dt,
                    Combine(DateOf(start_dt), slots[k].st),
                    Combine(DateOf(start_dt), slots[k].et))

timetable_conflict(slots, start_dt, end_dt, ignore_crn) ==
    \E k \in 1..Len(slots) :
        /\ slots[k].wd = Weekday(start_dt)
        /\ slots[k].crn # ignore_crn
        /\ overlaps(start_dt, end_dt,
                    Combine(DateOf(start_dt), slots[k].st),
                    Combine(DateOf(start_dt), slots[k].et))

------------------------------------------------------------------------------
(* CHECK NOAM / NOPM *)

check_noam_nopm(row, start_dt, end_dt) ==
    LET noam == row.NOAM = "Y"
        nopm == row.NOPM = "Y"
    IN  IF noam /\ TimeOf(start_dt) < Time(9, 0) THEN FALSE
        ELSE IF nopm /\ TimeOf(end_dt) > Time(18, 0) THEN FALSE
        ELSE TRUE

------------------------------------------------------------------------------
(* PARSE DURATION *)

(* A duration cell is [kind, h, m, numeric, tenths]:                        *)
(*   "blank"  the empty cell;                                               *)
(*   "colon"  a string "h:m"; numeric is FALSE when int() rejects a part;   *)
(*   "number" a string float() accepts, worth tenths/10 (so "1.5" is 15);   *)
(*   "text"   any other string.                                             *)
DurBlank == [kind |-> "blank", h |-> 0, m |-> 0, numeric |-> FALSE, tenths |-> 0]

DurColon(h, m) == [kind |-> "colon", h |-> h, m |-> m, numeric |-> TRUE, tenths |-> 0]

DurColonBad == [kind |-> "colon", h |-> 0, m |-> 0, numeric |-> FALSE, tenths |-> 0]

DurNumber(t) == [kind |-> "number", h |-> 0, m |-> 0, numeric |-> TRUE, tenths |-> t]

DurText == [kind |-> "text", h |-> 0, m |-> 0, numeric |-> FALSE, tenths |-> 0]

\* int(float(v)): truncation toward zero
IntOfTenths(t) == IF t >= 0 THEN t \div 10 ELSE 0 - ((0 - t) \div 10)

\* [exc, minutes]: exc is TRUE when the ValueError of int() leaves the function
parse_duration(value) ==
    IF value.kind = "blank" THEN [exc |-> FALSE, minutes |-> 0]
    ELSE IF value.kind = "colon"
    THEN IF value.numeric
         THEN [exc |-> FALSE, minutes |-> value.h * 60 + value.m]
         ELSE [exc |-> TRUE, minutes |-> 0]
    ELSE IF value.kind = "number"
    THEN [exc |-> FALSE, minutes |-> IntOfTenths(value.tenths)]
    ELSE [exc |-> FALSE, minutes |-> 0]

------------------------------------------------------------------------------
(* BUILD ALTERNATIVE CANDIDATES *)

rules == <<
    [col |-> "8:00 am the day of the exam",     offset |-> 0,  fixed_time |-> Time(8, 0)],
    [col |-> "5:00 pm the day of the exam",     offset |-> 0,  fixed_time |-> Time(17, 0)],
    [col |-> "8:00 am the day BEFORE the exam", offset |-> -1, fixed_time |-> Time(8, 0)],
    [col |-> "5:00 pm the day BEFORE the exam", offset |-> -1, fixed_time |-> Time(17, 0)],
    [col |-> "8:00 am the day AFTER the exam",  offset |-> 1,  fixed_time |-> Time(8, 0)],
    [col |-> "5:00 pm the day AFTER the exam",  offset |-> 1,  fixed_time |-> Time(17, 0)] >>

\* The column names whose lower case holds both "week" and "after"
WeekAfterCols == {"8:00 am up to a week AFTER the exam",
                  "5:00 pm up to a week AFTER the exam"}

\* The first such column in the order of row.index, or None
week_col(index) ==
    LET hits == {k \in 1..Len(index) : index[k] \in WeekAfterCols}
    IN  IF hits = {} THEN None
        ELSE index[CHOOSE m \in hits : \A n \in hits : m <= n]

\* str(d) for the day offsets 1..7
DigitStr == <<"1", "2", "3", "4", "5", "6", "7">>

\* t.strftime('%H:%M') for the two fixed times
HHMM(t) == IF t = Time(8, 0) THEN "08:00" ELSE "17:00"

\* A row's flag cell: row.Y is the set of the columns holding "Y"
Flag(row, col) == IF col \in row.Y THEN "Y" ELSE "N"

RECURSIVE RuleCandidates(_, _, _)
RuleCandidates(row, inst_dt, n) ==
    IF n > Len(rules) THEN <<>>
    ELSE (IF Flag(row, rules[n].col) = "Y"
          THEN << [label |-> rules[n].col,
                   dt |-> Combine(DateOf(inst_dt + rules[n].offset * MinutesPerDay),
                                  rules[n].fixed_time)] >>
          ELSE <<>>)
         \o RuleCandidates(row, inst_dt, n + 1)

\* for d in range(1, 8): for t in [08:00, 17:00]
WeekCandidates(row, inst_dt) ==
    LET wc == week_col(row.index)
    IN  IF wc # None /\ Flag(row, wc) = "Y"
        THEN [k \in 1..14 |->
                LET d == (k + 1) \div 2
                    t == IF k % 2 = 1 THEN Time(8, 0) ELSE Time(17, 0)
                IN  [label |-> wc \o "+" \o DigitStr[d] \o "@" \o HHMM(t),
                     dt |-> Combine(DateOf(inst_dt + d * MinutesPerDay), t)]]
        ELSE <<>>

\* Mutant: the instructor time is appended after the options
build_candidates_InstructorLast(row, inst_dt) ==
    RuleCandidates(row, inst_dt, 1)
    \o WeekCandidates(row, inst_dt)
    \o << [label |-> "Instructor", dt |-> inst_dt] >>

build_candidates(row, inst_dt) ==
    << [label |-> "Instructor", dt |-> inst_dt] >>
    \o RuleCandidates(row, inst_dt, 1)
    \o WeekCandidates(row, inst_dt)

------------------------------------------------------------------------------
(* TRY TO SCHEDULE ONE EXAM *)

\* The three checks of the candidate loop, for one candidate start
CandidateOK(row, slots, existing, start_dt, end_dt) ==
    /\ check_noam_nopm(row, start_dt, end_dt)
    /\ ~ timetable_conflict(slots, start_dt, end_dt, row.crn)
    /\ ~ \E k \in 1..Len(existing) :
            overlaps(start_dt, end_dt, existing[k][1], existing[k][2])

Scheduled(s, e, label) ==
    [kind |-> "scheduled", s |-> s, e |-> e, label |-> label, error |-> None]

Failed(error) ==
    [kind |-> "error", s |-> 0, e |-> 0, label |-> None, error |-> error]

Raises(exc) ==
    [kind |-> "raise", s |-> 0, e |-> 0, label |-> None, error |-> exc]

\* Mutant: the loop gives up at the first candidate that fails a check
CandidateLoop_StopsAtFirst(row, slots, existing, candidates, duration, n) ==
    IF CandidateOK(row, slots, existing, candidates[n].dt, candidates[n].dt + duration)
    THEN Scheduled(candidates[n].dt, candidates[n].dt + duration, candidates[n].label)
    ELSE Failed("No available slot")

\* for label, start_dt in candidates: the first candidate passing the checks
RECURSIVE CandidateLoop(_, _, _, _, _, _)
CandidateLoop(row, slots, existing, candidates, duration, n) ==
    IF n > Len(candidates) THEN Failed("No available slot")
    ELSE LET start_dt == candidates[n].dt
             end_dt   == start_dt + duration
         IN  IF CandidateOK(row, slots, existing, start_dt, end_dt)
             THEN Scheduled(start_dt, end_dt, candidates[n].label)
             ELSE CandidateLoop(row, slots, existing, candidates, duration, n + 1)

(* schedule_exam: only parse_datetime is inside the try.  A ValueError of     *)
(* parse_duration leaves the function, and so does the TypeError of           *)
(* None + timedelta when parse_datetime returned None for a blank string.     *)
schedule_exam(row, slots, existing, tdy) ==
    LET p == parse_datetime(row.date, row.time, tdy)
        d == parse_duration(row.Duration)
    IN  IF p.exc THEN Failed("Invalid instructor date/time")
        ELSE IF d.exc THEN Raises("ValueError")
        ELSE IF p.none THEN Raises("TypeError")
        ELSE CandidateLoop(row, slots, existing,
                           build_candidates(row, p.dt), d.minutes, 1)

------------------------------------------------------------------------------
(* MAIN SCHEDULING PROCESS *)

\* dict.get(key, default)
DictGet(d, key, default) == IF key \in DOMAIN d THEN d[key] ELSE default

\* d[key] = value
DictSet(d, key, value) ==
    [k \in DOMAIN d \cup {key} |-> IF k = key THEN value ELSE d[k]]

EmptyDict == [k \in {} |-> <<>>]

\* The output row of one request: the row and the four scheduling columns
OutRow(row, r) ==
    IF r.kind = "scheduled"
    THEN [row |-> row,
          Scheduled_Start |-> Strftime(r.s),
          Scheduled_End   |-> Strftime(r.e),
          Scheduled_Label |-> r.label,
          Schedule_Status |-> "SCHEDULED"]
    ELSE [row |-> row,
          Scheduled_Start |-> Blank,
          Scheduled_End   |-> Blank,
          Scheduled_Label |-> "",
          Schedule_Status |-> r.error]

\* Mutant: the committed interval is not stored
Commit_NotStored(exams, sid, r) == exams

\* Mutant: the committed interval replaces the student's list
Commit_Overwrite(exams, sid, r) ==
    IF r.kind = "scheduled" THEN DictSet(exams, sid, << <<r.s, r.e>> >>) ELSE exams

\* Mutant: one list object is shared by all students
Commit_Shared(exams, sid, r) ==
    IF r.kind = "scheduled"
    THEN [s \in DOMAIN exams \cup {sid} |->
             Append(DictGet(exams, s, <<>>), <<r.s, r.e>>)]
    ELSE exams

\* existing.append((s, e)); exams_for_student[sid] = existing
Commit(exams, sid, r) ==
    IF r.kind = "scheduled"
    THEN DictSet(exams, sid, Append(DictGet(exams, sid, <<>>), <<r.s, r.e>>))
    ELSE exams

\* schedule_exam for the next row of the loop
NextResult ==
    LET row == df[i + 1]
    IN  schedule_exam(row, DictGet(timetable, row.sid, <<>>),
                      DictGet(exams_for_student, row.sid, <<>>), today)

\* schedule_all, line 279: the tagging pass over the whole table
TagSlots ==
    /\ pc = "tag"
    /\ timetable' = tag_slots_with_crn(df, timetable)
    /\ pc' = "loop"
    /\ UNCHANGED <<df, today, i, results, exams_for_student, raised>>
    /\ UNCHANGED sched_runs
    /\ UNCHANGED not_sched

\* schedule_all, lines 284-307: one iteration of the loop over the rows
ProcessRow ==
    /\ pc = "loop"
    /\ i < Len(df)
    /\ NextResult.kind # "raise"
    /\ results' = Append(results, OutRow(df[i + 1], NextResult))
    /\ exams_for_student' = Commit(exams_for_student, df[i + 1].sid, NextResult)
    /\ i' = i + 1
    /\ UNCHANGED <<df, timetable, today, pc, raised>>
    /\ UNCHANGED sched_runs
    /\ UNCHANGED not_sched

\* An iteration in which schedule_exam raises: the exception leaves schedule_all
ProcessRowRaises ==
    /\ pc = "loop"
    /\ i < Len(df)
    /\ NextResult.kind = "raise"
    /\ pc' = "raised"
    /\ raised' = NextResult.error
    /\ UNCHANGED <<df, timetable, today, i, results, exams_for_student>>
    /\ UNCHANGED sched_runs
    /\ UNCHANGED not_sched

\* schedule_all, lines 309-310: the loop is over, the table is returned
Return ==
    /\ pc = "loop"
    /\ i = Len(df)
    /\ pc' = "returned"
    /\ UNCHANGED <<df, timetable, today, i, results, exams_for_student, raised>>
    /\ UNCHANGED sched_runs
    /\ UNCHANGED not_sched

------------------------------------------------------------------------------
(* ROOM ASSIGNMENT: build_and_solve_ilp of utils/gurobi_room_optimizer.py       *)
(*                                                                            *)
(* An exam group is [start_time, end_time, student_count].  The room table    *)
(* is [columns, rows]: columns the sequence of its column names and each row  *)
(* a function from the column names to cells.  A location cell is a string;   *)
(* the other cells are [kind, v] as above, kind "blank" being NaN.            *)

RECURSIVE SumSeq(_)
SumSeq(s) == IF s = <<>> THEN 0 ELSE Head(s) + SumSeq(Tail(s))

\* The elements of a sequence, without repetition, in order of first occurrence
RECURSIVE Unique(_)
Unique(s) ==
    IF s = <<>> THEN <<>>
    ELSE LET u == Unique(SubSeq(s, 1, Len(s) - 1))
         IN  IF \E k \in 1..Len(u) : u[k] = s[Len(s)] THEN u
             ELSE Append(u, s[Len(s)])

SeqRange(s) == {s[k] : k \in 1..Len(s)}

\* str(value).strip() of a location cell
StrStrip(raw) ==
    CASE raw = " R1" -> "R1"
      [] raw = "R2 " -> "R2"
      [] OTHER -> raw

\* col.lower().strip() of a column name
LowerStrip(col) ==
    CASE col = "Location" -> "location"
      [] col = "Room_ID" -> "room_id"
      [] col = "Start Time" -> "start time"
      [] col = "End Time" -> "end time"
      [] col = "Capacity " -> "capacity"
      [] OTHER -> col

\* The first column, in column order, whose name is one of names; None if none
FirstColumn(columns, names) ==
    LET hits == {k \in 1..Len(columns) : LowerStrip(columns[k]) \in names}
    IN  IF hits = {} THEN None
        ELSE columns[CHOOSE m \in hits : \A n \in hits : m <= n]

\* _normalize_room_columns: standard name -> actual column (None: not mapped)
_normalize_room_columns(columns) ==
    [location   |-> FirstColumn(columns, {"location", "id", "room_id", "name"}),
     start_time |-> FirstColumn(columns, {"start time", "start_time", "starttime"}),
     end_time   |-> FirstColumn(columns, {"end time", "end_time", "endtime"}),
     capacity   |-> FirstColumn(columns, {"capacity"})]

\* int(float(cell)) with the default 1 of the except branch
RoomCapacity(row, col_map) ==
    IF col_map.capacity = None THEN 1
    ELSE IF row[col_map.capacity].kind = "value" THEN row[col_map.capacity].v
    ELSE 1

(* pd.to_datetime of an availability cell: a Timestamp, NaT for NaN, and     *)
(* None when the column is missing or the conversion raises.                 *)
RoomTime(row, col) ==
    IF col = None THEN [kind |-> "none", v |-> 0]
    ELSE IF row[col].kind = "value" THEN [kind |-> "value", v |-> row[col].v]
    ELSE IF row[col].kind = "blank" THEN [kind |-> "nat", v |-> 0]
    ELSE [kind |-> "none", v |-> 0]

\* rooms_df[col_map['location']].unique().tolist()
RoomLocations(rooms, col_map) ==
    Unique([k \in 1..Len(rooms.rows) |-> rooms.rows[k][col_map.location]])

\* The loop of lines 85-117: a later row of a location replaces an earlier one
RECURSIVE RoomInfo(_, _, _)
RoomInfo(rooms, col_map, n) ==
    IF n = 0 THEN EmptyDict
    ELSE LET info     == RoomInfo(rooms, col_map, n - 1)
             row      == rooms.rows[n]
             location == StrStrip(row[col_map.location])
         IN  IF location = "" \/ location = "nan" THEN info
             ELSE DictSet(info, location,
                          [capacity   |-> RoomCapacity(row, col_map),
                           start_time |-> RoomTime(row, col_map.start_time),
                           end_time   |-> RoomTime(row, col_map.end_time)])

\* pandas compares False with NaT
Before(a, b) == a.kind = "value" /\ b.kind = "value" /\ a.v < b.v

Stamp(v) == [kind |-> "value", v |-> v]

\* Mutant: the tolerance is not applied
_exams_overlap_NoTolerance(group1, group2, tolerance_minutes) ==
    Max(group1.start_time, group2.start_time) < Min(group1.end_time, group2.end_time)

\* Mutant: intervals that only touch count as overlapping
_exams_overlap_Touching(group1, group2, tolerance_minutes) ==
    Max(group1.start_time - tolerance_minutes, group2.start_time - tolerance_minutes)
        <= Min(group1.end_time + tolerance_minutes, group2.end_time + tolerance_minutes)

_exams_overlap(group1, group2, tolerance_minutes) ==
    LET start1 == group1.start_time - tolerance_minutes
        end1   == group1.end_time + tolerance_minutes
        start2 == group2.start_time - tolerance_minutes
        end2   == group2.end_time + tolerance_minutes
    IN  Max(start1, start2) < Min(end1, end2)

\* range(n_groups)
GroupIndex == 0..(Len(exam_groups) - 1)

Group(g) == exam_groups[g + 1]

(* The decision variables: x[<<g, r>>] for every group index g and every      *)
(* element r of room_locations, and room_used[r].                             *)
XSpace(locs) == [GroupIndex \X SeqRange(locs) -> {0, 1}]

\* Mutant: at most one room per group
assignment_group_AtMostOne(x, locs, g) ==
    SumSeq([k \in 1..Len(locs) |-> x[<<g, locs[k]>>]]) <= 1

\* Constraint 1: each exam group is assigned to exactly one room
assignment_group(x, locs, g) ==
    SumSeq([k \in 1..Len(locs) |-> x[<<g, locs[k]>>]]) = 1

\* Mutant: the capacity bounds each group on its own, not the sum
capacity_room_PerGroup(x, info, r) ==
    \A g \in GroupIndex : Group(g).student_count * x[<<g, r>>] <= info[r].capacity

\* Constraint 2: the students of all groups in room r fit its capacity
capacity_room(x, info, r) ==
    SumSeq([k \in 1..Len(exam_groups) |->
               exam_groups[k].student_count * x[<<k - 1, r>>]]) <= info[r].capacity

\* Mutant: only the start of the window is enforced
availability_StartOnly(x, info, g, r) ==
    (info[r].start_time.kind # "none" /\ info[r].end_time.kind # "none") =>
        (Before(Stamp(Group(g).start_time), info[r].start_time) => x[<<g, r>>] = 0)

\* Constraint 3: a group outside the availability window of r is not put in r
availability(x, info, g, r) ==
    (info[r].start_time.kind # "none" /\ info[r].end_time.kind # "none") =>
        /\ Before(Stamp(Group(g).start_time), info[r].start_time) => x[<<g, r>>] = 0
        /\ Before(info[r].end_time, Stamp(Group(g).end_time)) => x[<<g, r>>] = 0

\* Constraint 4: two groups that overlap in time do not share room r
no_overlap(x, g, h, r) ==
    _exams_overlap(Group(g), Group(h), tolerance) => x[<<g, r>>] + x[<<h, r>>] <= 1

\* Mutant: a room in use need not be counted as used
linking_Unlinked(x, room_used, g, r) == x[<<g, r>>] <= 1

\* Constraint 6: x[g, r] <= room_used[r]
linking(x, room_used, g, r) == x[<<g, r>>] <= room_used[r]

\* The assignments x that satisfy constraints 1 to 4
FeasibleX(locs, info) ==
    {x \in XSpace(locs) :
        /\ \A g \in GroupIndex : assignment_group(x, locs, g)
        /\ \A r \in SeqRange(locs) : capacity_room(x, info, r)
        /\ \A g \in GroupIndex : \A r \in SeqRange(locs) : availability(x, info, g, r)
        /\ \A g \in GroupIndex : \A h \in GroupIndex : \A r \in SeqRange(locs) :
              g < h => no_overlap(x, g, h, r)}

\* The solutions of the model: x with a room_used it is linked to
Feasible(locs, info) ==
    {sol \in {[x |-> x, room_used |-> u] :
                 x \in FeasibleX(locs, info), u \in [SeqRange(locs) -> {0, 1}]} :
        \A g \in GroupIndex : \A r \in SeqRange(locs) :
            linking(sol.x, sol.room_used, g, r)}

\* max(capacity, 1)
Weight(info, r) == Max(info[r].capacity, 1)

RECURSIVE Product(_)
Product(s) == IF s = <<>> THEN 1 ELSE Head(s) * Product(Tail(s))

\* The common denominator of the weights 1.0 / max(capacity, 1)
Denominator(locs, info) == Product([k \in 1..Len(locs) |-> Weight(info, locs[k])])

(* The objective's value as a fraction <<numerator, denominator>>; the       *)
(* denominator is 1 but for 'minimize_weighted'.                             *)
ObjVal(sol, locs, info) ==
    IF objective = "minimize_rooms"
    THEN << SumSeq([k \in 1..Len(locs) |-> sol.room_used[locs[k]]]), 1 >>
    ELSE IF objective = "minimize_weighted"
    THEN << SumSeq([k \in 1..Len(locs) |->
                      (Denominator(locs, info) \div Weight(info, locs[k]))
                      * SumSeq([n \in 1..Len(exam_groups) |-> sol.x[<<n - 1, locs[k]>>]])]),
            Denominator(locs, info) >>
    ELSE << SumSeq([k \in 1..Len(locs) |->
                      info[locs[k]].capacity
                      * SumSeq([n \in 1..Len(exam_groups) |-> sol.x[<<n - 1, locs[k]>>]])]),
            1 >>

\* The solutions GRB.OPTIMAL can come with
Optimal(locs, info) ==
    LET F == Feasible(locs, info)
    IN  {sol \in F : \A other \in F :
            ObjVal(sol, locs, info)[1] <= ObjVal(other, locs, info)[1]}

\* Lines 248-253: the rooms r, in the order of room_locations, with x[g, r] > 0.5
ExtractAssignment(sol, locs) ==
    [g \in GroupIndex |->
        LET Chosen(r) == sol.x[<<g, r>>] * 2 > 1
        IN  SelectSeq(locs, Chosen)]

NoValue == <<>>

Result(assignment_map, status, objective_value, has_model) ==
    [assignment_map |-> assignment_map, status |-> status,
     objective_value |-> objective_value, has_model |-> has_model]

NoResult == Result(EmptyDict, None, NoValue, FALSE)

(* What model.optimize() left: model.status, model.SolCount (0, or 1 for any *)
(* positive count) and, when there is a solution, the values x[i, r].X       *)
Stopped(status, SolCount, X) == [status |-> status, SolCount |-> SolCount, X |-> X]

NotSolved == Stopped(None, 0, NoValue)

\* Mutant: the incumbent of a run that hit the time limit is discarded
SolveTimeLimit_Discards ==
    /\ ilp_pc = "solve"
    /\ \/ \E sol \in Feasible(model.room_locations, model.room_info) :
             /\ solver' = Stopped("TIME_LIMIT", 1, sol.x)
             /\ ilp_result' = Result(EmptyDict, "TIME_LIMIT", NoValue, TRUE)
       \/ /\ solver' = Stopped("TIME_LIMIT", 0, NoValue)
          /\ ilp_result' = Result(EmptyDict, "TIME_LIMIT", NoValue, TRUE)
    /\ ilp_pc' = "returned"
    /\ UNCHANGED <<exam_groups, rooms_df, objective, tolerance, model, ilp_raised>>
    /\ UNCHANGED not_ilp

\* Lines 57-64
ReturnNoExams ==
    /\ ilp_pc = "call"
    /\ exam_groups = <<>>
    /\ ilp_result' = Result(EmptyDict, "NO_EXAMS", <<0, 1>>, FALSE)
    /\ ilp_pc' = "returned"
    /\ UNCHANGED <<exam_groups, rooms_df, objective, tolerance, model, ilp_raised>>
    /\ UNCHANGED solver
    /\ UNCHANGED not_ilp

\* Mutant: the room table is looked at before the group list
ReturnNoRooms_First ==
    /\ ilp_pc = "call"
    /\ rooms_df.rows = <<>>
    /\ ilp_result' = Result(EmptyDict, "NO_ROOMS", <<0, 1>>, FALSE)
    /\ ilp_pc' = "returned"
    /\ UNCHANGED <<exam_groups, rooms_df, objective, tolerance, model, ilp_raised>>
    /\ UNCHANGED solver
    /\ UNCHANGED not_ilp

\* Lines 66-73: rooms_df.empty
ReturnNoRooms ==
    /\ ilp_pc = "call"
    /\ exam_groups # <<>>
    /\ rooms_df.rows = <<>>
    /\ ilp_result' = Result(EmptyDict, "NO_ROOMS", <<0, 1>>, FALSE)
    /\ ilp_pc' = "returned"
    /\ UNCHANGED <<exam_groups, rooms_df, objective, tolerance, model, ilp_raised>>
    /\ UNCHANGED solver
    /\ UNCHANGED not_ilp

(* Lines 75-238 when an exception leaves them: the ValueError of             *)
(* _normalize_room_columns for a table without a location column, or the     *)
(* KeyError of room_info[r] in constraint 2 for a location r whose stripped  *)
(* string is not a key of room_info.  Neither is inside the try, nor is      *)
(* gp.Model of line 120, which raises GurobiError without a licence.         *)
BuildError ==
    LET col_map == _normalize_room_columns(rooms_df.columns)
    IN  IF col_map.location = None THEN "ValueError"
        ELSE IF \E r \in SeqRange(RoomLocations(rooms_df, col_map)) :
                   r \notin DOMAIN RoomInfo(rooms_df, col_map, Len(rooms_df.rows))
        THEN "KeyError"
        ELSE NoExc

BuildRaises ==
    /\ ilp_pc = "call"
    /\ exam_groups # <<>>
    /\ rooms_df.rows # <<>>
    /\ \/ /\ BuildError # NoExc
          /\ ilp_raised' = BuildError
       \/ /\ BuildError # "ValueError"
          /\ ilp_raised' = "GurobiError"
    /\ ilp_pc' = "raised"
    /\ UNCHANGED <<exam_groups, rooms_df, objective, tolerance, model, ilp_result>>
    /\ UNCHANGED solver
    /\ UNCHANGED not_ilp

\* Lines 75-238: the model is built
BuildModel ==
    /\ ilp_pc = "call"
    /\ exam_groups # <<>>
    /\ rooms_df.rows # <<>>
    /\ BuildError = NoExc
    /\ LET col_map == _normalize_room_columns(rooms_df.columns)
       IN  model' = [room_locations |-> RoomLocations(rooms_df, col_map),
                     room_info |-> RoomInfo(rooms_df, col_map, Len(rooms_df.rows))]
    /\ ilp_pc' = "solve"
    /\ UNCHANGED <<exam_groups, rooms_df, objective, tolerance, ilp_result, ilp_raised>>
    /\ UNCHANGED solver
    /\ UNCHANGED not_ilp

\* Lines 242-256: the solver ends with GRB.OPTIMAL and a solution
SolveOptimal ==
    /\ ilp_pc = "solve"
    /\ \E sol \in Optimal(model.room_locations, model.room_info) :
          /\ solver' = Stopped("OPTIMAL", 1, sol.x)
          /\ ilp_result' =
                Result(ExtractAssignment(sol, model.room_locations), "OPTIMAL",
                       ObjVal(sol, model.room_locations, model.room_info), TRUE)
    /\ ilp_pc' = "returned"
    /\ UNCHANGED <<exam_groups, rooms_df, objective, tolerance, model, ilp_raised>>
    /\ UNCHANGED not_ilp

\* Lines 257-260: the solver proves the model infeasible
SolveInfeasible ==
    /\ ilp_pc = "solve"
    /\ Feasible(model.room_locations, model.room_info) = {}
    /\ solver' = Stopped("INFEASIBLE", 0, NoValue)
    /\ ilp_result' = Result(EmptyDict, "INFEASIBLE", NoValue, TRUE)
    /\ ilp_pc' = "returned"
    /\ UNCHANGED <<exam_groups, rooms_df, objective, tolerance, model, ilp_raised>>
    /\ UNCHANGED not_ilp

(* Lines 261-272: the solver stops on a time limit, with an incumbent (any   *)
(* solution of the model) or with none.                                       *)
SolveTimeLimit ==
    /\ ilp_pc = "solve"
    /\ \/ \E sol \in Feasible(model.room_locations, model.room_info) :
             /\ solver' = Stopped("TIME_LIMIT", 1, sol.x)
             /\ ilp_result' =
                   Result(ExtractAssignment(sol, model.room_locations), "TIME_LIMIT",
                          ObjVal(sol, model.room_locations, model.room_info), TRUE)
       \/ /\ solver' = Stopped("TIME_LIMIT", 0, NoValue)
          /\ ilp_result' = Result(EmptyDict, "TIME_LIMIT", NoValue, TRUE)
    /\ ilp_pc' = "returned"
    /\ UNCHANGED <<exam_groups, rooms_df, objective, tolerance, model, ilp_raised>>
    /\ UNCHANGED not_ilp

(* Lines 273-276: any other status of the solver, here GRB.INF_OR_UNBD (4)   *)
(* for an infeasible model and GRB.INTERRUPTED (11).                          *)
SolveOtherStatus ==
    /\ ilp_pc = "solve"
    /\ \/ /\ Feasible(model.room_locations, model.room_info) = {}
          /\ solver' = Stopped("INF_OR_UNBD", 0, NoValue)
          /\ ilp_result' = Result(EmptyDict, "STATUS_4", NoValue, TRUE)
       \/ /\ solver' = Stopped("INTERRUPTED", 0, NoValue)
          /\ ilp_result' = Result(EmptyDict, "STATUS_11", NoValue, TRUE)
    /\ ilp_pc' = "returned"
    /\ UNCHANGED <<exam_groups, rooms_df, objective, tolerance, model, ilp_raised>>
    /\ UNCHANGED not_ilp

\* Lines 286-294: model.optimize() raises GurobiError
SolveError ==
    /\ ilp_pc = "solve"
    /\ solver' = Stopped("GurobiError", 0, NoValue)
    /\ ilp_result' = Result(EmptyDict, "ERROR", NoValue, TRUE)
    /\ ilp_pc' = "returned"
    /\ UNCHANGED <<exam_groups, rooms_df, objective, tolerance, model, ilp_raised>>
    /\ UNCHANGED not_ilp

------------------------------------------------------------------------------
(* EXAM GROUPS: group_exam_timings of utils/group_exams.py                    *)
(*                                                                            *)
(* A row of the exam table is [Student_ID, CRN, Scheduled_Start,              *)
(* Scheduled_End, Schedule_Status]; the two time cells hold what strftime     *)
(* wrote, or Blank.                                                           *)

NaT == [kind |-> "nat", v |-> 0]

\* pd.to_datetime(cell, errors='coerce')
to_datetime_coerce(cell) ==
    IF cell = Blank THEN NaT
    ELSE Stamp(Combine(cell[1], Time(cell[2], cell[3])))

\* pd.isna
isna(ts) == ts.kind # "value"

\* The (start, end) of a row after lines 32-33
KeyOf(row) == << to_datetime_coerce(row.Scheduled_Start).v,
                 to_datetime_coerce(row.Scheduled_End).v >>

\* Lines 26-36: the SCHEDULED rows whose start and end are both a time
ScheduledValid(table) ==
    LET Keep(row) == /\ row.Schedule_Status = "SCHEDULED"
                     /\ ~ isna(to_datetime_coerce(row.Scheduled_Start))
                     /\ ~ isna(to_datetime_coerce(row.Scheduled_End))
    IN  SelectSeq(table, Keep)

\* (start1, end1) sorts before or with (start2, end2)
KeyLeq(k1, k2) == k1[1] < k2[1] \/ (k1[1] = k2[1] /\ k1[2] <= k2[2])

\* A list of keys in ascending order
RECURSIVE SortKeys(_)
SortKeys(keys) ==
    IF keys = <<>> THEN <<>>
    ELSE LET least == CHOOSE k \in SeqRange(keys) : \A o \in SeqRange(keys) : KeyLeq(k, o)
             Other(k) == k # least
         IN  <<least>> \o SortKeys(SelectSeq(keys, Other))

\* Mutant: groupby(sort=False), the keys in order of first appearance
GroupKeys_Unsorted(rows) == Unique([k \in 1..Len(rows) |-> KeyOf(rows[k])])

\* Line 42: groupby sorts the group keys
GroupKeys(rows) == SortKeys(Unique([k \in 1..Len(rows) |-> KeyOf(rows[k])]))

\* Mutant: the course ids of the members are not made unique
GroupOf_AllCrns(rows, key) ==
    LET Member(row) == KeyOf(row) = key
        members == SelectSeq(rows, Member)
    IN  [start_time    |-> key[1],
         end_time      |-> key[2],
         student_count |-> Len(members),
         student_ids   |-> [k \in 1..Len(members) |-> members[k].Student_ID],
         crns          |-> [k \in 1..Len(members) |-> members[k].CRN],
         exam_records  |-> members]

\* Lines 45-58: the group of key
GroupOf(rows, key) ==
    LET Member(row) == KeyOf(row) = key
        members == SelectSeq(rows, Member)
    IN  [start_time    |-> key[1],
         end_time      |-> key[2],
         student_count |-> Len(members),
         student_ids   |-> [k \in 1..Len(members) |-> members[k].Student_ID],
         crns          |-> Unique([k \in 1..Len(members) |-> members[k].CRN]),
         exam_records  |-> members]

\* list.sort(key=start_time): stable
RECURSIVE SortByStart(_)
SortByStart(gs) ==
    IF gs = <<>> THEN <<>>
    ELSE LET sorted == SortByStart(SubSeq(gs, 1, Len(gs) - 1))
             g      == gs[Len(gs)]
             before == {k \in 1..Len(sorted) : sorted[k].start_time <= g.start_time}
             n      == IF before = {} THEN 0
                       ELSE CHOOSE k \in before : \A o \in before : o <= k
         IN  SubSeq(sorted, 1, n) \o <<g>> \o SubSeq(sorted, n + 1, Len(sorted))

group_exam_timings(table) ==
    LET rows == ScheduledValid(table)
        keys == GroupKeys(rows)
    IN  SortByStart([k \in 1..Len(keys) |-> GroupOf(rows, keys[k])])

\* get_room_requirements: min_capacity is the student count
get_room_requirements(gs) ==
    [k \in 1..Len(gs) |->
        [start_time |-> gs[k].start_time, end_time |-> gs[k].end_time,
         min_capacity |-> gs[k].student_count, student_count |-> gs[k].student_count,
         crns |-> gs[k].crns]]

------------------------------------------------------------------------------
(* ROOM SEARCH: Pipeline2.search_rooms_in_liv25 and                           *)
(* LIV25API.get_rooms_from_dataframe                                          *)
(*                                                                            *)
(* A room dict is [location, start_time, end_time, capacity, has_capacity]:   *)
(* the two times are cells, has_capacity tells whether the key 'capacity' is  *)
(* present.                                                                   *)

NoDataFrame == [none |-> TRUE]

\* get_rooms_from_dataframe, lines 190-204: the last column of a kind is kept
LastColumn(columns, names) ==
    LET hits == {k \in 1..Len(columns) : LowerStrip(columns[k]) \in names}
    IN  IF hits = {} THEN None
        ELSE columns[CHOOSE m \in hits : \A n \in hits : n <= m]

\* pd.to_datetime of a cell that is known to convert
StampOfCell(cell) == IF cell.kind = "value" THEN Stamp(cell.v) ELSE NaT

(* The test of a room's window against an exam: the room is rejected when    *)
(* the exam starts before the window or ends after it; a cell that does not  *)
(* convert raises inside the try and the room is taken as available.         *)
WindowRejects(room_start, room_end, start_time, end_time) ==
    IF room_start.kind = "garbage" \/ room_end.kind = "garbage" THEN FALSE
    ELSE \/ Before(Stamp(start_time), StampOfCell(room_start))
         \/ Before(StampOfCell(room_end), Stamp(end_time))

\* strftime('%Y-%m-%dT%H:%M:%S') of an exam time, as a cell
IsoCell(dt) == [kind |-> "value", v |-> dt]

RECURSIVE RoomsFromRows(_, _, _, _, _, _)
RoomsFromRows(table, n, loc, cap, st, en) ==
    IF n = 0 THEN <<>>
    ELSE LET rest     == RoomsFromRows(table, n - 1, loc, cap, st, en)
             row      == table.rows[n]
             location == StrStrip(row[loc])
             small    == /\ cap.col # None
                         /\ row[cap.col].kind = "value"
                         /\ row[cap.col].v < cap.needed
             away     == /\ st.col # None
                         /\ en.col # None
                         /\ WindowRejects(row[st.col], row[en.col], st.t, en.t)
         IN  IF location = "" \/ location = "nan" \/ small \/ away THEN rest
             ELSE Append(rest,
                    [location     |-> location,
                     start_time   |-> IF st.col # None THEN row[st.col] ELSE IsoCell(st.t),
                     end_time     |-> IF en.col # None THEN row[en.col] ELSE IsoCell(en.t),
                     capacity     |-> IF cap.col = None THEN 1
                                      ELSE IF row[cap.col].kind = "value"
                                      THEN row[cap.col].v ELSE 1,
                     has_capacity |-> cap.col # None])

get_rooms_from_dataframe(table, start_time, end_time, capacity) ==
    LET loc == LastColumn(table.columns, {"location", "id", "room_id", "name"})
    IN  IF table.rows = <<>> \/ loc = None THEN <<>>
        ELSE RoomsFromRows(table, Len(table.rows), loc,
               [col |-> LastColumn(table.columns, {"capacity"}), needed |-> capacity],
               [col |-> LastColumn(table.columns, {"start time", "start_time", "starttime"}),
                t |-> start_time],
               [col |-> LastColumn(table.columns, {"end time", "end_time", "endtime"}),
                t |-> end_time])

SearchResult(req, available_rooms) ==
    [start_time |-> req.start_time, end_time |-> req.end_time,
     student_count |-> req.student_count, available_rooms |-> available_rooms]

------------------------------------------------------------------------------
(* ROOM ASSIGNMENT: Pipeline2 of service/pipeline2.py and                     *)
(* apply_ilp_assignments_to_dataframe of utils/gurobi_room_optimizer.py       *)

\* Line 62
GroupExams ==
    /\ asg_pc = "group"
    /\ groups' = group_exam_timings(exam_df)
    /\ asg_pc' = "search"
    /\ UNCHANGED <<exam_df, liv25_rooms_df, use_ilp, room_search_results, applied_map,
                   asg_i, asg_out, room_map, room_assignments, time_to_rooms,
                   room_capacities, room_usage>>
    /\ UNCHANGED <<GUROBI_AVAILABLE, ilp_status, df_times, runs, first_out>>
    /\ UNCHANGED not_asg

\* search_rooms_in_liv25, lines 79-98: the rooms come from the inventory table
SearchDataFrame ==
    /\ asg_pc = "search"
    /\ liv25_rooms_df # NoDataFrame
    /\ LET reqs == get_room_requirements(groups)
       IN  room_search_results' =
              [k \in 1..Len(reqs) |->
                  SearchResult(reqs[k],
                      get_rooms_from_dataframe(liv25_rooms_df, reqs[k].start_time,
                                               reqs[k].end_time, reqs[k].min_capacity))]
    /\ asg_pc' = "assign"
    /\ UNCHANGED <<exam_df, liv25_rooms_df, use_ilp, groups, applied_map,
                   asg_i, asg_out, room_map, room_assignments, time_to_rooms,
                   room_capacities, room_usage>>
    /\ UNCHANGED <<GUROBI_AVAILABLE, ilp_status, df_times, runs, first_out>>
    /\ UNCHANGED not_asg

\* A room dict as get_available_rooms normalizes what the server sent
ApiRoom(location, start, end, capacity) ==
    [location |-> location, start_time |-> start, end_time |-> end,
     capacity |-> capacity, has_capacity |-> TRUE]

\* The lists of rooms the LIV25 server answers a search with
ApiRoomLists ==
    LET at(h, m) == [kind |-> "value", v |-> Combine(7, Time(h, m))]
    IN  { <<>>,
          << ApiRoom("R1", at(9, 30), at(12, 0), 2), ApiRoom("R2", at(8, 0), at(12, 0), 1) >>,
          << ApiRoom("R1", at(8, 0), at(12, 0), 1), ApiRoom("R2", at(8, 0), at(10, 0), 1) >> }

(* search_rooms_in_liv25, lines 99-102: the rooms come from the LIV25        *)
(* server, which answers every search with a list of its own choice.         *)
SearchApi ==
    /\ asg_pc = "search"
    /\ liv25_rooms_df = NoDataFrame
    /\ LET reqs == get_room_requirements(groups)
       IN  \E answer \in [1..Len(reqs) -> ApiRoomLists] :
              room_search_results' =
                  [k \in 1..Len(reqs) |-> SearchResult(reqs[k], answer[k])]
    /\ asg_pc' = "assign"
    /\ UNCHANGED <<exam_df, liv25_rooms_df, use_ilp, groups, applied_map,
                   asg_i, asg_out, room_map, room_assignments, time_to_rooms,
                   room_capacities, room_usage>>
    /\ UNCHANGED <<GUROBI_AVAILABLE, ilp_status, df_times, runs, first_out>>
    /\ UNCHANGED not_asg

\* The output columns of one row
Assigned(room, status) == [room |-> room, status |-> status]

\* Lines 238-241: a later result of the same (start, end) replaces an earlier one
RECURSIVE RoomMap(_, _)
RoomMap(search, n) ==
    IF n = 0 THEN EmptyDict
    ELSE DictSet(RoomMap(search, n - 1),
                 <<search[n].start_time, search[n].end_time>>,
                 search[n].available_rooms)

\* Mutant: the optimizer's form is taken whenever it was asked for
IlpForm_Requested == use_ilp

\* assign_rooms, line 166: the optimizer's form is taken
IlpForm == use_ilp /\ GUROBI_AVAILABLE

\* Lines 250-251 on a table whose time columns hold what was loaded
ConvertTimes(table) ==
    [k \in 1..Len(table) |->
        [Scheduled_Start |-> to_datetime_coerce(table[k].Scheduled_Start),
         Scheduled_End   |-> to_datetime_coerce(table[k].Scheduled_End)]]

\* pd.to_datetime(ts, errors='coerce') of a value that is a Timestamp or NaT
to_datetime_again(ts) == IF isna(ts) THEN NaT ELSE Stamp(ts.v)

\* Lines 250-251 on a table whose time columns were converted before
ReconvertTimes(times) ==
    [k \in 1..Len(times) |->
        [Scheduled_Start |-> to_datetime_again(times[k].Scheduled_Start),
         Scheduled_End   |-> to_datetime_again(times[k].Scheduled_End)]]

(* assign_rooms, lines 166-171, and _assign_rooms_ilp, lines 186-192: the    *)
(* greedy form is taken when the optimizer was not asked for, is not          *)
(* installed, or there is no group; then lines 237-254, which write the       *)
(* columns of the caller's table in place.                                    *)
GreedyStart ==
    /\ asg_pc = "assign"
    /\ ~ IlpForm \/ groups = <<>>
    /\ room_map' = RoomMap(room_search_results, Len(room_search_results))
    /\ df_times' = ConvertTimes(exam_df)
    /\ room_assignments' = EmptyDict
    /\ asg_out' = <<>>
    /\ asg_i' = 0
    /\ runs' = 1
    /\ asg_pc' = "greedy"
    /\ UNCHANGED <<exam_df, liv25_rooms_df, use_ilp, groups, room_search_results,
                   applied_map, time_to_rooms, room_capacities, room_usage>>
    /\ UNCHANGED <<GUROBI_AVAILABLE, ilp_status, first_out>>
    /\ UNCHANGED not_asg

\* Lines 296-310: the room's window does not cover the exam
GreedyWindowRejects(room, start_time, end_time) ==
    WindowRejects(room.start_time, room.end_time, start_time, end_time)

\* Lines 296-317: the room takes one more student of this exam
GreedyFits(room, usage, start_time, end_time) ==
    /\ ~ GreedyWindowRejects(room, start_time, end_time)
    /\ Len(DictGet(usage, <<start_time, end_time, room.location>>, <<>>)) < room.capacity

\* Mutant: the last room that fits is taken
GreedyChoice_Last(rooms, usage, start_time, end_time) ==
    LET fits == {k \in 1..Len(rooms) : GreedyFits(rooms[k], usage, start_time, end_time)}
    IN  IF fits = {} THEN 0 ELSE CHOOSE k \in fits : \A n \in fits : n <= k

\* Lines 278-330: the position of the first room that fits, 0 if none does
GreedyChoice(rooms, usage, start_time, end_time) ==
    LET fits == {k \in 1..Len(rooms) : GreedyFits(rooms[k], usage, start_time, end_time)}
    IN  IF fits = {} THEN 0 ELSE CHOOSE k \in fits : \A n \in fits : k <= n

\* Lines 256-333: one row of the greedy loop
GreedyRow ==
    /\ asg_pc = "greedy"
    /\ asg_i < Len(exam_df)
    /\ LET row        == exam_df[asg_i + 1]
           start_time == df_times[asg_i + 1].Scheduled_Start
           end_time   == df_times[asg_i + 1].Scheduled_End
           key        == <<start_time.v, end_time.v>>
           rooms      == DictGet(room_map, key, <<>>)
           choice     == GreedyChoice(rooms, room_assignments, start_time.v, end_time.v)
           usage_key  == <<start_time.v, end_time.v, rooms[choice].location>>
       IN  IF row.Schedule_Status # "SCHEDULED"
           THEN /\ asg_out' = Append(asg_out,
                                Assigned("", "No room needed - exam not scheduled"))
                /\ UNCHANGED room_assignments
           ELSE IF isna(start_time) \/ isna(end_time)
           THEN /\ asg_out' = Append(asg_out, Assigned("", "Invalid time slot"))
                /\ UNCHANGED room_assignments
           ELSE IF rooms = <<>>
           THEN /\ asg_out' = Append(asg_out, Assigned("", "No rooms available"))
                /\ UNCHANGED room_assignments
           ELSE IF choice = 0
           THEN /\ asg_out' = Append(asg_out,
                                Assigned("", "No available rooms with capacity"))
                /\ UNCHANGED room_assignments
           ELSE /\ asg_out' = Append(asg_out, Assigned(rooms[choice].location, "Assigned"))
                /\ room_assignments' =
                      DictSet(room_assignments, usage_key,
                              Append(DictGet(room_assignments, usage_key, <<>>),
                                     row.Student_ID))
    /\ asg_i' = asg_i + 1
    /\ UNCHANGED <<exam_df, liv25_rooms_df, use_ilp, groups, room_search_results,
                   applied_map, asg_pc, room_map, time_to_rooms, room_capacities,
                   room_usage>>
    /\ UNCHANGED <<GUROBI_AVAILABLE, ilp_status, df_times, runs, first_out>>
    /\ UNCHANGED not_asg

\* Lines 335-341
GreedyReturn ==
    /\ asg_pc = "greedy"
    /\ asg_i = Len(exam_df)
    /\ asg_pc' = "done"
    /\ UNCHANGED <<exam_df, liv25_rooms_df, use_ilp, groups, room_search_results,
                   applied_map, asg_i, asg_out, room_map, room_assignments,
                   time_to_rooms, room_capacities, room_usage>>
    /\ UNCHANGED <<GUROBI_AVAILABLE, ilp_status, df_times, runs, first_out>>
    /\ UNCHANGED not_asg

\* Mutant: the second run goes on with the occupancy the first run left
GreedyAgain_KeepsOccupancy ==
    /\ asg_pc = "done"
    /\ runs = 1
    /\ first_out' = asg_out
    /\ room_map' = RoomMap(room_search_results, Len(room_search_results))
    /\ df_times' = ReconvertTimes(df_times)
    /\ asg_out' = <<>>
    /\ asg_i' = 0
    /\ runs' = 2
    /\ asg_pc' = "greedy"
    /\ UNCHANGED <<exam_df, liv25_rooms_df, use_ilp, groups, room_search_results,
                   applied_map, room_assignments, time_to_rooms, room_capacities,
                   room_usage>>
    /\ UNCHANGED <<GUROBI_AVAILABLE, ilp_status>>
    /\ UNCHANGED not_asg

(* _assign_rooms_greedy is called once more with the table the first call    *)
(* wrote into and the same room search results: lines 237-254 again.  The    *)
(* four output columns are overwritten with '', the two time columns, which  *)
(* hold Timestamps by now, are converted again, and room_assignments is a    *)
(* new dict.                                                                  *)
GreedyAgain ==
    /\ asg_pc = "done"
    /\ runs = 1
    /\ first_out' = asg_out
    /\ room_map' = RoomMap(room_search_results, Len(room_search_results))
    /\ df_times' = ReconvertTimes(df_times)
    /\ room_assignments' = EmptyDict
    /\ asg_out' = <<>>
    /\ asg_i' = 0
    /\ runs' = 2
    /\ asg_pc' = "greedy"
    /\ UNCHANGED <<exam_df, liv25_rooms_df, use_ilp, groups, room_search_results,
                   applied_map, time_to_rooms, room_capacities, room_usage>>
    /\ UNCHANGED <<GUROBI_AVAILABLE, ilp_status>>
    /\ UNCHANGED not_asg

\* The rows of _prepare_rooms_dataframe: the first room dict of each location
RECURSIVE PreparedRows(_, _)
PreparedRows(rooms, seen) ==
    IF rooms = <<>> THEN <<>>
    ELSE LET room == Head(rooms)
         IN  IF room.location = "" \/ room.location \in seen
             THEN PreparedRows(Tail(rooms), seen)
             ELSE << [c \in {"location", "start time", "end time", "capacity"} |->
                        CASE c = "location" -> room.location
                          [] c = "start time" -> room.start_time
                          [] c = "end time" -> room.end_time
                          [] c = "capacity" -> [kind |-> "value", v |-> room.capacity]] >>
                  \o PreparedRows(Tail(rooms), seen \cup {room.location})

RECURSIVE Flatten(_)
Flatten(ss) == IF ss = <<>> THEN <<>> ELSE Head(ss) \o Flatten(Tail(ss))

\* Pipeline2._prepare_rooms_dataframe
_prepare_rooms_dataframe(search) ==
    [columns |-> <<"location", "start time", "end time", "capacity">>,
     rows    |-> PreparedRows(Flatten([k \in 1..Len(search) |-> search[k].available_rooms]),
                              {})]

\* _assign_rooms_ilp, lines 197-204: no room at all
IlpNoRooms ==
    /\ asg_pc = "assign"
    /\ IlpForm
    /\ groups # <<>>
    /\ _prepare_rooms_dataframe(room_search_results).rows = <<>>
    /\ asg_out' = [k \in 1..Len(exam_df) |-> Assigned("", "No rooms available")]
    /\ asg_i' = Len(exam_df)
    /\ asg_pc' = "done"
    /\ UNCHANGED <<exam_df, liv25_rooms_df, use_ilp, groups, room_search_results,
                   applied_map, room_map, room_assignments, time_to_rooms,
                   room_capacities, room_usage>>
    /\ UNCHANGED <<GUROBI_AVAILABLE, ilp_status, df_times, runs, first_out>>
    /\ UNCHANGED not_asg

(* The assignment maps an ilp_result can carry: empty, or for every group    *)
(* index a list of no, one or two locations of the room table.               *)
AssignmentMaps(table) ==
    LET locs    == [k \in 1..Len(table.rows) |-> table.rows[k]["location"]]
        entries == {<<>>} \cup {<<locs[k]>> : k \in 1..Len(locs)}
                   \cup {<<locs[k], locs[n]>> : k \in 1..Len(locs), n \in 2..Len(locs)}
    IN  {EmptyDict} \cup [0..(Len(groups) - 1) -> entries]

\* Lines 395-400
RECURSIVE TimeToRooms(_, _, _)
TimeToRooms(am, gs, n) ==
    IF n = 0 THEN EmptyDict
    ELSE LET rest == TimeToRooms(am, gs, n - 1)
         IN  IF n - 1 \in DOMAIN am /\ n - 1 < Len(gs)
             THEN DictSet(rest, <<gs[n].start_time, gs[n].end_time>>, am[n - 1])
             ELSE rest

\* Lines 403-415
RECURSIVE RoomCapacities(_, _, _)
RoomCapacities(table, col_map, n) ==
    IF n = 0 THEN EmptyDict
    ELSE DictSet(RoomCapacities(table, col_map, n - 1),
                 StrStrip(table.rows[n][col_map.location]),
                 RoomCapacity(table.rows[n], col_map))

(* The statuses build_and_solve_ilp returns an empty assignment_map with once  *)
(* the model is built (lines 253-302), the STATUS_<n> of line 276 apart        *)
EmptyMapStatuses == {"INFEASIBLE", "TIME_LIMIT", "ERROR"}

\* The statuses build_and_solve_ilp returns a filled assignment_map with
FilledMapStatuses == {"OPTIMAL", "TIME_LIMIT"}

(* _assign_rooms_ilp, lines 206-222, and lines 373-392: the solver's result  *)
(* has an empty assignment_map, whatever its status.                          *)
ApplyEmpty ==
    /\ asg_pc = "assign"
    /\ IlpForm
    /\ groups # <<>>
    /\ _prepare_rooms_dataframe(room_search_results).rows # <<>>
    /\ ilp_status' \in EmptyMapStatuses
    /\ applied_map' = EmptyDict
    /\ asg_out' = [k \in 1..Len(exam_df) |->
                      IF exam_df[k].Schedule_Status = "SCHEDULED"
                      THEN Assigned("", "No rooms assigned by ILP")
                      ELSE Assigned("", "")]
    /\ asg_i' = Len(exam_df)
    /\ asg_pc' = "done"
    /\ UNCHANGED <<exam_df, liv25_rooms_df, use_ilp, groups, room_search_results,
                   room_map, room_assignments, time_to_rooms, room_capacities,
                   room_usage>>
    /\ UNCHANGED <<GUROBI_AVAILABLE, df_times, runs, first_out>>
    /\ UNCHANGED not_asg

(* _assign_rooms_ilp, lines 206-222, and lines 373-418: the solver's result  *)
(* carries an assignment map, which is any map over the groups and the       *)
(* locations of the prepared room table.                                     *)
ApplyStart ==
    /\ asg_pc = "assign"
    /\ IlpForm
    /\ groups # <<>>
    /\ ilp_status' \in FilledMapStatuses
    /\ LET table == _prepare_rooms_dataframe(room_search_results)
       IN  /\ table.rows # <<>>
           /\ \E am \in AssignmentMaps(table) \ {EmptyDict} :
                 /\ applied_map' = am
                 /\ time_to_rooms' = TimeToRooms(am, groups, Len(groups))
           /\ room_capacities' =
                 RoomCapacities(table, _normalize_room_columns(table.columns),
                                Len(table.rows))
    /\ room_usage' = EmptyDict
    /\ asg_out' = <<>>
    /\ asg_i' = 0
    /\ asg_pc' = "apply"
    /\ UNCHANGED <<exam_df, liv25_rooms_df, use_ilp, groups, room_search_results,
                   room_map, room_assignments>>
    /\ UNCHANGED <<GUROBI_AVAILABLE, df_times, runs, first_out>>
    /\ UNCHANGED not_asg

\* Mutant: the capacity of the room is not looked at
ApplyChoice_First(assigned_rooms, usage, capacities, start_time, end_time) ==
    IF assigned_rooms = <<>> THEN 0 ELSE 1

\* Mutant: every room holds one student, as when no room table is passed
ApplyChoice_Individual(assigned_rooms, usage, capacities, start_time, end_time) ==
    LET free == {k \in 1..Len(assigned_rooms) :
                    Len(DictGet(usage, <<start_time, end_time, assigned_rooms[k]>>, <<>>))
                        < 1}
    IN  IF free = {} THEN 0 ELSE CHOOSE k \in free : \A n \in free : k <= n

\* Lines 445-463: the position of the first assigned room with a free place
ApplyChoice(assigned_rooms, usage, capacities, start_time, end_time) ==
    LET free == {k \in 1..Len(assigned_rooms) :
                    Len(DictGet(usage, <<start_time, end_time, assigned_rooms[k]>>, <<>>))
                        < DictGet(capacities, assigned_rooms[k], 1)}
    IN  IF free = {} THEN 0 ELSE CHOOSE k \in free : \A n \in free : k <= n

\* Lines 421-468: one row of the loop of apply_ilp_assignments_to_dataframe
ApplyRow ==
    /\ asg_pc = "apply"
    /\ asg_i < Len(exam_df)
    /\ LET row        == exam_df[asg_i + 1]
           start_time == to_datetime_coerce(row.Scheduled_Start)
           end_time   == to_datetime_coerce(row.Scheduled_End)
           key        == <<start_time.v, end_time.v>>
           assigned_rooms == DictGet(time_to_rooms, key, <<>>)
           choice     == ApplyChoice(assigned_rooms, room_usage, room_capacities,
                                     start_time.v, end_time.v)
           usage_key  == <<start_time.v, end_time.v, assigned_rooms[choice]>>
       IN  IF row.Schedule_Status # "SCHEDULED"
           THEN /\ asg_out' = Append(asg_out,
                                Assigned("", "No room needed - exam not scheduled"))
                /\ UNCHANGED room_usage
           ELSE IF isna(start_time) \/ isna(end_time)
           THEN /\ asg_out' = Append(asg_out, Assigned("", "Invalid time slot"))
                /\ UNCHANGED room_usage
           ELSE IF assigned_rooms = <<>>
           THEN /\ asg_out' = Append(asg_out, Assigned("", "No rooms assigned by ILP"))
                /\ UNCHANGED room_usage
           ELSE IF choice = 0
           THEN /\ asg_out' = Append(asg_out,
                                Assigned("", "All assigned rooms at capacity"))
                /\ UNCHANGED room_usage
           ELSE /\ asg_out' = Append(asg_out,
                                Assigned(assigned_rooms[choice], "Assigned (ILP)"))
                /\ room_usage' =
                      DictSet(room_usage, usage_key,
                              Append(DictGet(room_usage, usage_key, <<>>),
                                     row.Student_ID))
    /\ asg_i' = asg_i + 1
    /\ UNCHANGED <<exam_df, liv25_rooms_df, use_ilp, groups, room_search_results,
                   applied_map, asg_pc, room_map, room_assignments, time_to_rooms,
                   room_capacities>>
    /\ UNCHANGED <<GUROBI_AVAILABLE, ilp_status, df_times, runs, first_out>>
    /\ UNCHANGED not_asg

\* Lines 470-476
ApplyReturn ==
    /\ asg_pc = "apply"
    /\ asg_i = Len(exam_df)
    /\ asg_pc' = "done"
    /\ UNCHANGED <<exam_df, liv25_rooms_df, use_ilp, groups, room_search_results,
                   applied_map, asg_i, asg_out, room_map, room_assignments,
                   time_to_rooms, room_capacities, room_usage>>
    /\ UNCHANGED <<GUROBI_AVAILABLE, ilp_status, df_times, runs, first_out>>
    /\ UNCHANGED not_asg

------------------------------------------------------------------------------
(* The request tables and timetables the scheduler is run on *)

Cell(v) == [kind |-> "value", v |-> v]

BlankCell == [kind |-> "blank", v |-> 0]

GarbageCell == [kind |-> "garbage", v |-> 0]

\* The columns of the request table, in the order Runner.pipeline builds them
Columns == <<"CRN", "Class start timings", "Days the class is offered",
             "Instructor Exam Date", "Instructor Exam Time",
             "8:00 am the day of the exam", "5:00 pm the day of the exam",
             "8:00 am the day BEFORE the exam", "5:00 pm the day BEFORE the exam",
             "8:00 am the day AFTER the exam", "5:00 pm the day AFTER the exam",
             "8:00 am up to a week AFTER the exam",
             "5:00 pm up to a week AFTER the exam",
             "Student ID", "NOAM", "NOPM", "Duration">>

\* Student and course of a row; the class of course c2 meets Monday 10:00,
\* that of c1 Tuesday 08:00
Enrolments ==
    { [sid |-> "s1", crn |-> "c1", days |-> <<"T">>, class_start |-> Cell(Time(8, 0))],
      [sid |-> "s1", crn |-> "c2", days |-> <<"M">>, class_start |-> Cell(Time(10, 0))],
      [sid |-> "s2", crn |-> "c1", days |-> <<"T">>, class_start |-> Cell(Time(8, 0))] }

\* The instructor's exam, the accommodations and the conflict options of a row.
\* Day 7 is a Monday.
Exam(date, time, dur, noam, nopm, Y) ==
    [date |-> date, time |-> time, Duration |-> dur,
     NOAM |-> noam, NOPM |-> nopm, Y |-> Y]

Exams ==
    { Exam(Cell(7), Cell(Time(10, 0)), DurColon(1, 0), "N", "N", {}),
      Exam(Cell(7), Cell(Time(10, 0)), DurColon(1, 0), "N", "N",
           {"8:00 am the day of the exam"}),
      Exam(Cell(7), Cell(Time(10, 0)), DurColon(1, 0), "Y", "N",
           {"8:00 am the day of the exam", "5:00 pm the day BEFORE the exam"}),
      Exam(Cell(7), Cell(Time(10, 0)), DurNumber(900), "N", "Y",
           {"5:00 pm the day of the exam", "8:00 am the day AFTER the exam",
            "8:00 am up to a week AFTER the exam"}),
      Exam(Cell(7), Cell(Time(23, 30)), DurColon(1, 0), "N", "Y", {}),
      Exam(Cell(7), Cell(Time(10, 30)), DurBlank, "N", "N", {}),
      Exam(Cell(7), GarbageCell, DurColon(1, 0), "N", "N", {}),
      Exam(BlankCell, BlankCell, DurColon(1, 0), "N", "N", {}),
      Exam(Cell(7), Cell(Time(10, 0)), DurColonBad, "N", "N", {}),
      Exam(Cell(7), Cell(Time(10, 0)), DurText, "N", "N", {}),
      Exam(Cell(7), Cell(Time(10, 0)), DurNumber(15), "N", "N", {}),
      Exam(Cell(7), Cell(Time(10, 0)), DurColon(1, 0), "N", "N",
           {"8:00 am up to a week AFTER the exam",
            "5:00 pm up to a week AFTER the exam"}) }

(* A request of s1 for course c3, whose class meets Monday at 10:05: within  *)
(* the tolerance of times_close of the Monday 10:00 class of c2.             *)
TwinRow ==
    [sid |-> "s1", crn |-> "c3", days |-> <<"M">>, class_start |-> Cell(Time(10, 5)),
     date |-> Cell(7), time |-> Cell(Time(10, 0)), Duration |-> DurColon(1, 0),
     NOAM |-> "N", NOPM |-> "N", Y |-> {}, index |-> Columns]

RowInputs ==
    { [sid |-> en.sid, crn |-> en.crn, days |-> en.days,
       class_start |-> en.class_start,
       date |-> ex.date, time |-> ex.time, Duration |-> ex.Duration,
       NOAM |-> ex.NOAM, NOPM |-> ex.NOPM, Y |-> ex.Y, index |-> Columns]
      : en \in Enrolments, ex \in Exams }
    \cup { TwinRow }

(* The request tables of a second call: the exam of course c2 on Monday at   *)
(* 10:00 for one hour, in a row that names the class of c2 (Monday 10:00)    *)
(* and in a row whose class start cell is empty; and an exam of course c1.   *)
RerunTables ==
    LET exam == Exam(Cell(7), Cell(Time(10, 0)), DurColon(1, 0), "N", "N", {})
        row(crn, days, class_start) ==
            [sid |-> "s1", crn |-> crn, days |-> days, class_start |-> class_start,
             date |-> exam.date, time |-> exam.time, Duration |-> exam.Duration,
             NOAM |-> exam.NOAM, NOPM |-> exam.NOPM, Y |-> exam.Y, index |-> Columns]
    IN  { << row("c2", <<"M">>, Cell(Time(10, 0))) >>,
          << row("c2", <<"M">>, BlankCell) >>,
          << row("c1", <<"T">>, Cell(Time(8, 0))) >> }

Slot(wd, st, et) == [wd |-> wd, st |-> st, et |-> et, crn |-> None]

\* load_timetable's result: untagged slots.  Student s2 has no timetable in
\* the first; in the second s1 also has a class on Monday at 08:00.
TimetableInputs ==
    { [s \in {"s1"} |->
          << Slot(0, Time(10, 0), Time(11, 0)), Slot(1, Time(8, 0), Time(9, 0)) >>],
      [s \in {"s1", "s2"} |->
          IF s = "s1"
          THEN << Slot(0, Time(8, 0), Time(9, 0)), Slot(0, Time(10, 0), Time(11, 0)),
                  Slot(1, Time(8, 0), Time(9, 0)) >>
          ELSE << Slot(0, Time(10, 0), Time(11, 0)) >>] }

SchedInit ==
    /\ df \in UNION {[1..n -> RowInputs] : n \in 1..MaxRows}
    /\ timetable \in TimetableInputs
    /\ today = 9
    /\ pc = "tag"
    /\ i = 0
    /\ results = <<>>
    /\ exams_for_student = EmptyDict
    /\ raised = NoExc
    /\ sched_runs = 1

\* The scheduler is not running
SchedIdle ==
    /\ df = <<>>
    /\ timetable = EmptyDict
    /\ today = 9
    /\ pc = "idle"
    /\ i = 0
    /\ results = <<>>
    /\ exams_for_student = EmptyDict
    /\ raised = NoExc
    /\ sched_runs = 0

(* schedule_all is called once more, with another request table and the      *)
(* timetable object of the first call, whose slots carry the CRNs line 143    *)
(* wrote; results and exams_for_student are new (lines 281-282).              *)
ScheduleAgain ==
    /\ pc = "returned"
    /\ sched_runs = 1
    /\ df' \in RerunTables
    /\ results' = <<>>
    /\ exams_for_student' = EmptyDict
    /\ i' = 0
    /\ sched_runs' = 2
    /\ pc' = "tag"
    /\ UNCHANGED <<timetable, today, raised>>
    /\ UNCHANGED not_sched

------------------------------------------------------------------------------
(* The groups and room tables the optimizer is run on *)

(* Three intervals of day 7: 09:00-10:00, 09:30-10:30 and 10:00-11:00, and   *)
(* the group of an exam of duration 0 at 09:30.                               *)
GroupInputs ==
    { [start_time |-> Combine(7, iv[1]), end_time |-> Combine(7, iv[2]),
       student_count |-> n]
      : iv \in { <<Time(9, 0), Time(10, 0)>>, <<Time(9, 30), Time(10, 30)>>,
                 <<Time(10, 0), Time(11, 0)>> },
        n \in {1, 2} }
    \cup { [start_time |-> Combine(7, Time(9, 30)), end_time |-> Combine(7, Time(9, 30)),
            student_count |-> 1] }

RoomColumns == <<"location", "start time", "end time", "capacity">>

RoomRow(location, start, end, capacity) ==
    [c \in SeqRange(RoomColumns) |->
        CASE c = "location" -> location
          [] c = "start time" -> start
          [] c = "end time" -> end
          [] c = "capacity" -> capacity]

\* A row of a table with the columns Room_ID and "Capacity "
ShortRow(location, capacity) ==
    [c \in {"Room_ID", "Capacity "} |-> IF c = "Room_ID" THEN location ELSE capacity]

At(h, m) == Cell(Combine(7, Time(h, m)))

RoomTable(rows) == [columns |-> RoomColumns, rows |-> rows]

RoomTables ==
    { RoomTable(<<>>),
      RoomTable(<< RoomRow("R1", BlankCell, BlankCell, Cell(2)) >>),
      RoomTable(<< RoomRow("R1", At(8, 0), At(12, 0), Cell(1)),
                   RoomRow("R2", At(8, 0), At(12, 0), Cell(3)) >>),
      RoomTable(<< RoomRow("R1", At(9, 30), At(12, 0), Cell(3)),
                   RoomRow("R2", At(8, 0), At(10, 0), Cell(2)) >>),
      RoomTable(<< RoomRow("R1", At(8, 0), At(10, 0), Cell(1)),
                   RoomRow("R1", At(10, 0), At(12, 0), Cell(3)) >>),
      RoomTable(<< RoomRow("R1", BlankCell, BlankCell, Cell(1)),
                   RoomRow("R2", BlankCell, BlankCell, Cell(2)),
                   RoomRow("R3", BlankCell, BlankCell, Cell(3)) >>),
      RoomTable(<< RoomRow(" R1", At(8, 0), At(12, 0), Cell(3)) >>),
      RoomTable(<< RoomRow("R1", At(8, 0), At(12, 0), GarbageCell),
                   RoomRow("R2", GarbageCell, At(10, 0), Cell(2)) >>),
      [columns |-> <<"Capacity ", "Room_ID">>,
       rows |-> << ShortRow("R1", Cell(4)), ShortRow("R2", Cell(1)) >>],
      [columns |-> <<"capacity">>, rows |-> << [c \in {"capacity"} |-> Cell(2)] >>] }

IlpInit ==
    /\ exam_groups \in UNION {[1..n -> GroupInputs] : n \in 0..MaxGroups}
    /\ rooms_df \in RoomTables
    /\ objective \in {"minimize_rooms", "minimize_weighted", "minimize_capacity"}
    /\ tolerance \in {0, 10}
    /\ ilp_pc = "call"
    /\ model = [room_locations |-> <<>>, room_info |-> EmptyDict]
    /\ ilp_result = NoResult
    /\ ilp_raised = NoExc
    /\ solver = NotSolved

\* The optimizer is not running
IlpIdle ==
    /\ exam_groups = <<>>
    /\ rooms_df = RoomTable(<<>>)
    /\ objective = "minimize_rooms"
    /\ tolerance = 0
    /\ ilp_pc = "idle"
    /\ model = [room_locations |-> <<>>, room_info |-> EmptyDict]
    /\ ilp_result = NoResult
    /\ ilp_raised = NoExc
    /\ solver = NotSolved

------------------------------------------------------------------------------
(* The exam tables and room inventories the room assignment is run on *)

ExamAt(h1, m1, h2, m2) == << <<7, h1, m1>>, <<7, h2, m2>> >>

ExamRow(sid, crn, times, status) ==
    [Student_ID |-> sid, CRN |-> crn, Scheduled_Start |-> times[1],
     Scheduled_End |-> times[2], Schedule_Status |-> status]

(* Exams at 09:00-10:00, at 09:00-10:30 and at 09:30-10:30, a request that   *)
(* was not scheduled, and a SCHEDULED row whose end cell was emptied.        *)
ExamRows ==
    { ExamRow("s1", "c1", ExamAt(9, 0, 10, 0), "SCHEDULED"),
      ExamRow("s2", "c1", ExamAt(9, 0, 10, 0), "SCHEDULED"),
      ExamRow("s3", "c2", ExamAt(9, 0, 10, 0), "SCHEDULED"),
      ExamRow("s1", "c2", ExamAt(9, 0, 10, 30), "SCHEDULED"),
      ExamRow("s2", "c2", ExamAt(9, 30, 10, 30), "SCHEDULED"),
      ExamRow("s3", "c1", ExamAt(9, 30, 10, 30), "SCHEDULED"),
      ExamRow("s1", "c1", <<Blank, Blank>>, "No available slot"),
      ExamRow("s2", "c2", << <<7, 9, 0>>, Blank >>, "SCHEDULED") }

Inventories ==
    { NoDataFrame,
      RoomTable(<< RoomRow("R1", At(8, 0), At(12, 0), Cell(1)),
                   RoomRow("R2", At(8, 0), At(12, 0), Cell(3)) >>),
      RoomTable(<< RoomRow("R1", At(9, 30), At(12, 0), Cell(3)),
                   RoomRow("R2", At(8, 0), At(10, 0), Cell(2)) >>),
      RoomTable(<< RoomRow("R1", At(8, 0), At(10, 0), Cell(1)),
                   RoomRow("R1", At(9, 0), At(12, 0), Cell(2)) >>) }

AsgInit ==
    /\ exam_df \in UNION {[1..n -> ExamRows] : n \in 0..MaxExams}
    /\ liv25_rooms_df \in Inventories
    /\ use_ilp \in BOOLEAN
    /\ groups = <<>>
    /\ room_search_results = <<>>
    /\ applied_map = EmptyDict
    /\ asg_pc = "group"
    /\ asg_i = 0
    /\ asg_out = <<>>
    /\ room_map = EmptyDict
    /\ room_assignments = EmptyDict
    /\ time_to_rooms = EmptyDict
    /\ room_capacities = EmptyDict
    /\ room_usage = EmptyDict
    /\ GUROBI_AVAILABLE \in BOOLEAN
    /\ ilp_status = None
    /\ df_times = <<>>
    /\ runs = 0
    /\ first_out = <<>>

\* The room assignment is not running
AsgIdle ==
    /\ exam_df = <<>>
    /\ liv25_rooms_df = NoDataFrame
    /\ use_ilp = FALSE
    /\ groups = <<>>
    /\ room_search_results = <<>>
    /\ applied_map = EmptyDict
    /\ asg_pc = "idle"
    /\ asg_i = 0
    /\ asg_out = <<>>
    /\ room_map = EmptyDict
    /\ room_assignments = EmptyDict
    /\ time_to_rooms = EmptyDict
    /\ room_capacities = EmptyDict
    /\ room_usage = EmptyDict
    /\ GUROBI_AVAILABLE = FALSE
    /\ ilp_status = None
    /\ df_times = <<>>
    /\ runs = 0
    /\ first_out = <<>>

------------------------------------------------------------------------------
(* THE END-TO-END PIPELINE: Runner.pipeline of service/runner.py              *)
(*                                                                            *)
(* The timetable file is {"students": [{"student_id", "Timings": [{"Day",     *)
(* "Slots": [{"start_time", "end_time"}]}]}]}; the times are cells as above.  *)

\* load_timetable, lines 76-89: the day names that give a weekday
DayNames ==
    [wd \in 0..6 |->
        CASE wd = 0 -> {"Monday", "MON", "M"}
          [] wd = 1 -> {"Tuesday", "TUE", "T"}
          [] wd = 2 -> {"Wednesday", "WED", "W"}
          [] wd = 3 -> {"Thursday", "THU", "R"}
          [] wd = 4 -> {"Friday", "FRI", "F"}
          [] wd = 5 -> {"Saturday", "SAT", "S"}
          [] wd = 6 -> {"Sunday", "SUN", "U"}]

\* wd is not None
DayKnown(day_name) == \E wd \in DOMAIN DayNames : day_name \in DayNames[wd]

DayOfName(day_name) == CHOOSE wd \in DOMAIN DayNames : day_name \in DayNames[wd]

\* load_timetable, lines 91-104: the slots of one day block
RECURSIVE LoadSlots(_, _)
LoadSlots(raw_slots, wd) ==
    IF raw_slots = <<>> THEN <<>>
    ELSE LET st == parse_time(Head(raw_slots).start_time)
             et == parse_time(Head(raw_slots).end_time)
         IN  (IF st.exc \/ et.exc THEN <<>>
              ELSE << [wd |-> wd, st |-> st.t, et |-> et.t, crn |-> None] >>)
             \o LoadSlots(Tail(raw_slots), wd)

\* load_timetable, lines 73-104: the slots of one student
RECURSIVE LoadTimings(_)
LoadTimings(timings) ==
    IF timings = <<>> THEN <<>>
    ELSE (IF ~ DayKnown(Head(timings).Day) THEN <<>>
          ELSE LoadSlots(Head(timings).Slots, DayOfName(Head(timings).Day)))
         \o LoadTimings(Tail(timings))

\* load_timetable: student id -> list of slots (weekday, start, end, None)
load_timetable(data) ==
    LET students == data["students"]
        last(sid) == CHOOSE k \in 1..Len(students) :
                        /\ students[k].student_id = sid
                        /\ \A n \in 1..Len(students) :
                              students[n].student_id = sid => n <= k
    IN  [sid \in {students[k].student_id : k \in 1..Len(students)} |->
            LoadTimings(students[last(sid)].Timings)]

\* Pipeline1.get_timetables: what json.load returns for the timetable file
JsonSlot(st, et) == [start_time |-> st, end_time |-> et]

JsonInputs ==
    { [students |->
          << [student_id |-> "s1",
              Timings |-> << [Day |-> "Monday",
                              Slots |-> << JsonSlot(Cell(Time(10, 0)), Cell(Time(11, 0))) >>],
                             [Day |-> "Tuesday",
                              Slots |-> << JsonSlot(Cell(Time(8, 0)), Cell(Time(9, 0))) >>] >>] >>],
      [students |->
          << [student_id |-> "s1",
              Timings |-> << [Day |-> "Monday",
                              Slots |-> << JsonSlot(Cell(Time(8, 0)), Cell(Time(9, 0))),
                                           JsonSlot(Cell(Time(10, 0)), Cell(Time(11, 0))) >>] >>],
             [student_id |-> "s2",
              Timings |-> << [Day |-> "Monday",
                              Slots |-> << JsonSlot(Cell(Time(10, 0)), BlankCell),
                                           JsonSlot(Cell(Time(10, 0)), Cell(Time(11, 0))) >>] >>] >>] }

(* Runner.pipeline, lines 36-45: the Duration column is a product of         *)
(* numbers, so its cells are numbers or empty.                               *)
RunnerRows ==
    {row \in RowInputs : row.Duration.kind \in {"number", "blank"}}
    \cup {[row EXCEPT !.Duration = DurNumber(900)] :
             row \in {r \in RowInputs : r.date.kind = "blank" /\ r.time.kind = "blank"}}

(* Runner.pipeline, lines 39 and 45: schedule_all is called with what        *)
(* get_timetables returned, the parsed JSON itself.                          *)
RunnerInit ==
    /\ df \in UNION {[1..n -> RunnerRows] : n \in 1..MaxRows}
    /\ timetable \in JsonInputs
    /\ today = 9
    /\ pc = "tag"
    /\ i = 0
    /\ results = <<>>
    /\ exams_for_student = EmptyDict
    /\ raised = NoExc
    /\ sched_runs = 1

------------------------------------------------------------------------------
(* The specifications *)

vars == <<sched_vars, ilp_vars, asg_vars>>

\* schedule_all
Init == SchedInit /\ IlpIdle /\ AsgIdle

Next == TagSlots \/ ProcessRow \/ ProcessRowRaises \/ Return \/ ScheduleAgain

Spec == Init /\ [][Next]_vars

\* Runner.pipeline, workflow 1 and 2
InitRunner == RunnerInit /\ IlpIdle /\ AsgIdle

NextRunner == TagSlots \/ ProcessRow \/ ProcessRowRaises \/ Return

SpecRunner == InitRunner /\ [][NextRunner]_vars

\* build_and_solve_ilp
InitILP == SchedIdle /\ IlpInit /\ AsgIdle

NextILP ==
    \/ ReturnNoExams \/ ReturnNoRooms \/ BuildRaises \/ BuildModel
    \/ SolveOptimal \/ SolveInfeasible \/ SolveTimeLimit \/ SolveOtherStatus
    \/ SolveError

SpecILP == InitILP /\ [][NextILP]_vars

\* Pipeline2: group_exam_timings, search_rooms_in_liv25, assign_rooms
InitRooms == SchedIdle /\ IlpIdle /\ AsgInit

NextRooms ==
    \/ GroupExams \/ SearchDataFrame \/ SearchApi
    \/ GreedyStart \/ GreedyRow \/ GreedyReturn \/ GreedyAgain
    \/ IlpNoRooms \/ ApplyEmpty \/ ApplyStart \/ ApplyRow \/ ApplyReturn

SpecRooms == InitRooms /\ [][NextRooms]_vars

------------------------------------------------------------------------------
(* What the claims about the scheduler speak of *)

Students == {"s1", "s2"}

\* The datetime a "%Y-%m-%d %H:%M" cell of the output denotes
CellTime(c) == Combine(c[1], Time(c[2], c[3]))

IsScheduled(out) == out.Schedule_Status = "SCHEDULED"

StartOf(out) == CellTime(out.Scheduled_Start)

EndOf(out) == CellTime(out.Scheduled_End)

\* Two half-open intervals have an instant in common
ShareInstant(s1, e1, s2, e2) ==
    \E m \in Max(s1, s2)..(Min(e1, e2) - 1) : m >= s1 /\ m < e1 /\ m >= s2 /\ m < e2

\* The overlap test as the specification writes it
SpecOverlap(s1, e1, s2, e2) == s1 < e2 /\ s2 < e1

\* The committed intervals of student sid among the first n output rows
RECURSIVE CommittedUpTo(_, _)
CommittedUpTo(sid, n) ==
    IF n = 0 THEN <<>>
    ELSE IF results[n].row.sid = sid /\ IsScheduled(results[n])
    THEN Append(CommittedUpTo(sid, n - 1), <<StartOf(results[n]), EndOf(results[n])>>)
    ELSE CommittedUpTo(sid, n - 1)

IsPrefix(a, b) == Len(a) <= Len(b) /\ \A k \in 1..Len(a) : a[k] = b[k]

\* The three checks of the specification, stated on their own
AccommodationBound(row, s, e) ==
    /\ row.NOAM = "Y" => TimeOf(s) >= Time(9, 0)
    /\ row.NOPM = "Y" => TimeOf(e) <= Time(18, 0)

TimetableNonConflict(slots, crn, s, e) ==
    \A k \in 1..Len(slots) :
        (slots[k].wd = Weekday(s) /\ slots[k].crn # crn)
            => ~ ShareInstant(s, e, Combine(DateOf(s), slots[k].st),
                                    Combine(DateOf(s), slots[k].et))

SelfNonConflict(existing, s, e) ==
    \A k \in 1..Len(existing) : ~ ShareInstant(s, e, existing[k][1], existing[k][2])

PassesAll(row, slots, existing, s, e) ==
    /\ AccommodationBound(row, s, e)
    /\ TimetableNonConflict(slots, row.crn, s, e)
    /\ SelfNonConflict(existing, s, e)

\* The instructor time of a row conflicts with a class slot of another course
ConflictsWithOtherCourse(row, slots, s, e) ==
    \E k \in 1..Len(slots) :
        /\ slots[k].wd = Weekday(s)
        /\ slots[k].crn \notin {None, row.crn}
        /\ ShareInstant(s, e, Combine(DateOf(s), slots[k].st),
                              Combine(DateOf(s), slots[k].et))

\* The row the loop processes next, with what the checks are made against
NextRow == df[i + 1]

NextSlots == DictGet(timetable, NextRow.sid, <<>>)

NextExisting == DictGet(exams_for_student, NextRow.sid, <<>>)

NextParsed == parse_datetime(NextRow.date, NextRow.time, today)

NextDuration == parse_duration(NextRow.Duration).minutes

NextCandidates == build_candidates(NextRow, NextParsed.dt)

NextPasses(n) ==
    PassesAll(NextRow, NextSlots, NextExisting,
              NextCandidates[n].dt, NextCandidates[n].dt + NextDuration)

\* One iteration of the loop has completed in this step
RowProcessed == pc = "loop" /\ i' = i + 1

LastOut == results'[Len(results')]

------------------------------------------------------------------------------
(* C1: as stated - after any prefix of the rows, no two SCHEDULED exams of   *)
(* one student overlap, where [s1,e1) and [s2,e2) overlap iff s1 < e2 and    *)
(* s2 < e1, for every parsed duration >= 0.                                  *)
C1_NoOverlapAsStated ==
    \A j, k \in 1..Len(results) :
        (j < k /\ results[j].row.sid = results[k].row.sid
               /\ IsScheduled(results[j]) /\ IsScheduled(results[k]))
            => ~ SpecOverlap(StartOf(results[j]), EndOf(results[j]),
                             StartOf(results[k]), EndOf(results[k]))

(* C1, amended: after any prefix of the rows, no two SCHEDULED exams of one  *)
(* student have an instant in common, and s1 < e2 /\ s2 < e1 holds of no two *)
(* such exams that both have a positive duration.                            *)
C1_NoOverlap ==
    \A j, k \in 1..Len(results) :
        (j < k /\ results[j].row.sid = results[k].row.sid
               /\ IsScheduled(results[j]) /\ IsScheduled(results[k]))
            => LET s1 == StartOf(results[j])
                   e1 == EndOf(results[j])
                   s2 == StartOf(results[k])
                   e2 == EndOf(results[k])
               IN  /\ ~ ShareInstant(s1, e1, s2, e2)
                   /\ (s1 < e1 /\ s2 < e2) => ~ SpecOverlap(s1, e1, s2, e2)

\* Two exams of one student are SCHEDULED, the later one moved off its
\* instructor time because that time overlaps the earlier exam
C1_Witness ==
    \E j, k \in 1..Len(results) :
        /\ j < k /\ results[j].row.sid = results[k].row.sid
        /\ IsScheduled(results[j]) /\ IsScheduled(results[k])
        /\ results[k].Scheduled_Label # "Instructor"
        /\ StartOf(results[j]) < EndOf(results[j])
        /\ StartOf(results[k]) < EndOf(results[k])
        /\ LET p == parse_datetime(results[k].row.date, results[k].row.time, today)
               d == parse_duration(results[k].row.Duration).minutes
           IN  SpecOverlap(p.dt, p.dt + d, StartOf(results[j]), EndOf(results[j]))

------------------------------------------------------------------------------
(* C2: for a request whose instructor date/time parses, the first candidate  *)
(* in list order that passes the accommodation bound, the timetable check    *)
(* (own course exempt) and the check against the student's committed exams   *)
(* is committed and its label recorded; every earlier candidate fails a      *)
(* check; the status is "No available slot" exactly when every candidate     *)
(* fails.  Scenario A: no flag set and the instructor time in conflict with  *)
(* a class slot of another course gives "No available slot"; Scenario B: the *)
(* same with only the day-of 08:00 flag set and that slot free gives         *)
(* SCHEDULED with the label "8:00 am the day of the exam".                   *)
C2_Step ==
    (RowProcessed /\ ~ NextParsed.exc) =>
        LET passing == {n \in 1..Len(NextCandidates) : NextPasses(n)}
        IN  /\ IsScheduled(LastOut) <=> passing # {}
            /\ LastOut.Schedule_Status = "No available slot" <=> passing = {}
            /\ passing # {} =>
                 LET n == CHOOSE m \in passing : \A o \in passing : m <= o
                     s == NextCandidates[n].dt
                     e == s + NextDuration
                 IN  /\ \A m \in 1..(n - 1) : ~ NextPasses(m)
                     /\ LastOut.Scheduled_Start = Strftime(s)
                     /\ LastOut.Scheduled_End = Strftime(e)
                     /\ LastOut.Scheduled_Label = NextCandidates[n].label
                     /\ exams_for_student'[NextRow.sid] = Append(NextExisting, <<s, e>>)

C2_Scenarios ==
    \A k \in 1..Len(results) :
        LET row   == results[k].row
            slots == DictGet(timetable, row.sid, <<>>)
            p     == parse_datetime(row.date, row.time, today)
            d     == parse_duration(row.Duration).minutes
            eight == Combine(DateOf(p.dt), Time(8, 0))
        IN  (~ p.exc /\ ConflictsWithOtherCourse(row, slots, p.dt, p.dt + d)) =>
               /\ row.Y = {} => results[k].Schedule_Status = "No available slot"
               /\ (/\ row.Y = {"8:00 am the day of the exam"}
                   /\ PassesAll(row, slots, CommittedUpTo(row.sid, k - 1),
                                eight, eight + d))
                  => /\ IsScheduled(results[k])
                     /\ results[k].Scheduled_Label = "8:00 am the day of the exam"
                     /\ StartOf(results[k]) = eight

C2_FirstPassingCandidate == [] C2_Scenarios /\ [][C2_Step]_vars

\* Scenario B has happened, after a request that went through Scenario A
C2_Witness ==
    \E k \in 1..Len(results) :
        LET row   == results[k].row
            slots == DictGet(timetable, row.sid, <<>>)
            p     == parse_datetime(row.date, row.time, today)
            d     == parse_duration(row.Duration).minutes
        IN  /\ ~ p.exc
            /\ ConflictsWithOtherCourse(row, slots, p.dt, p.dt + d)
            /\ row.Y = {"8:00 am the day of the exam"}
            /\ IsScheduled(results[k])
            /\ results[k].Scheduled_Label = "8:00 am the day of the exam"

------------------------------------------------------------------------------
(* C3: every SCHEDULED exam overlaps no timetable slot of its student on the *)
(* weekday of the exam, except slots tagged with the request's own course.   *)
C3_TimetableNonConflict ==
    \A k \in 1..Len(results) :
        IsScheduled(results[k]) =>
            TimetableNonConflict(DictGet(timetable, results[k].row.sid, <<>>),
                                 results[k].row.crn,
                                 StartOf(results[k]), EndOf(results[k]))

\* An exam is SCHEDULED over the class meeting of its own course, on a day on
\* which its student has another class too
C3_Witness ==
    \E k \in 1..Len(results) :
        LET slots == DictGet(timetable, results[k].row.sid, <<>>)
            s     == StartOf(results[k])
            e     == EndOf(results[k])
        IN  /\ IsScheduled(results[k])
            /\ \E a \in 1..Len(slots) :
                  /\ slots[a].wd = Weekday(s) /\ slots[a].crn = results[k].row.crn
                  /\ ShareInstant(s, e, Combine(DateOf(s), slots[a].st),
                                        Combine(DateOf(s), slots[a].et))
            /\ \E b \in 1..Len(slots) :
                  slots[b].wd = Weekday(s) /\ slots[b].crn # results[k].row.crn

------------------------------------------------------------------------------
(* C4: a SCHEDULED exam of a request with NOAM starts at or after 09:00, and *)
(* one of a request with NOPM ends no later than 18:00 of the day on which   *)
(* it starts, for every duration.                                            *)
C4_AccommodationBounds ==
    \A k \in 1..Len(results) :
        IsScheduled(results[k]) =>
            /\ results[k].row.NOAM = "Y" => TimeOf(StartOf(results[k])) >= Time(9, 0)
            /\ results[k].row.NOPM = "Y" =>
                  EndOf(results[k]) <= Combine(DateOf(StartOf(results[k])), Time(18, 0))

------------------------------------------------------------------------------
(* C5: rows are committed in input order: after row k the committed          *)
(* intervals of each student are exactly the intervals of that student's     *)
(* SCHEDULED rows among rows 1..k, in that order; a later exam of the        *)
(* student shares no instant with any of them; and a later row neither       *)
(* changes nor removes a committed interval or an output row.                *)
C5_Committed ==
    /\ Len(results) = i
    /\ \A k \in 1..Len(results) : results[k].row = df[k]
    /\ \A sid \in Students :
          DictGet(exams_for_student, sid, <<>>) = CommittedUpTo(sid, Len(results))
    /\ \A sid \in Students :
          LET c == DictGet(exams_for_student, sid, <<>>)
          IN  \A j, k \in 1..Len(c) :
                 j < k => ~ ShareInstant(c[j][1], c[j][2], c[k][1], c[k][2])

\* A step within one call of schedule_all
C5_Step ==
    sched_runs' = sched_runs =>
        /\ IsPrefix(results, results')
        /\ \A sid \in Students :
              IsPrefix(DictGet(exams_for_student, sid, <<>>),
                       DictGet(exams_for_student', sid, <<>>))

C5_CommittedInOrder == [] C5_Committed /\ [][C5_Step]_vars

\* The table has been returned and a student has two committed intervals
C5_Witness ==
    /\ pc = "returned"
    /\ \E sid \in DOMAIN exams_for_student : Len(exams_for_student[sid]) >= 2

------------------------------------------------------------------------------
(* C6: whenever the instructor time passes all three checks the request is   *)
(* SCHEDULED at exactly the instructor time with the label "Instructor",     *)
(* whatever conflict-option flags are set.                                   *)
C6_Step ==
    (/\ RowProcessed
     /\ ~ NextParsed.exc
     /\ PassesAll(NextRow, NextSlots, NextExisting,
                  NextParsed.dt, NextParsed.dt + NextDuration))
    => /\ IsScheduled(LastOut)
       /\ LastOut.Scheduled_Start = Strftime(NextParsed.dt)
       /\ LastOut.Scheduled_End = Strftime(NextParsed.dt + NextDuration)
       /\ LastOut.Scheduled_Label = "Instructor"

C6_InstructorFirst == [][C6_Step]_vars

\* A request with conflict options set, one of them feasible too, is
\* SCHEDULED at its instructor time
C6_Witness ==
    \E k \in 1..Len(results) :
        LET row == results[k].row
            eight == Combine(DateOf(StartOf(results[k])), Time(8, 0))
        IN  /\ IsScheduled(results[k])
            /\ results[k].Scheduled_Label = "Instructor"
            /\ "8:00 am the day of the exam" \in row.Y
            /\ PassesAll(row, DictGet(timetable, row.sid, <<>>),
                         CommittedUpTo(row.sid, k - 1), eight,
                         eight + parse_duration(row.Duration).minutes)

------------------------------------------------------------------------------
(* C7: schedule_all completes for every request table and returns one output *)
(* row per input row, in input order, each with a status that is SCHEDULED   *)
(* or a failure reason; no row, also not one with a blank or malformed       *)
(* instructor date, time or duration, aborts the rows after it.              *)
C7_BatchCompletes ==
    /\ pc # "raised"
    /\ pc = "returned" =>
          /\ Len(results) = Len(df)
          /\ \A k \in 1..Len(df) :
                /\ results[k].row = df[k]
                /\ results[k].Schedule_Status \in
                      {"SCHEDULED", "No available slot", "Invalid instructor date/time"}

------------------------------------------------------------------------------
(* The room assignment a call of build_and_solve_ilp returned, and what the   *)
(* room table says about a location                                           *)

Returned(status) == ilp_pc = "returned" /\ ilp_result.status = status

\* The call returned an assignment: one entry per group
ReturnedAssignment ==
    /\ ilp_pc = "returned"
    /\ ilp_result.status \in {"OPTIMAL", "TIME_LIMIT"}
    /\ DOMAIN ilp_result.assignment_map # {}

\* The group indexes whose entry lists room r
AssignedTo(r) ==
    {g \in DOMAIN ilp_result.assignment_map :
        \E k \in 1..Len(ilp_result.assignment_map[g]) : ilp_result.assignment_map[g][k] = r}

\* The rooms the assignment names
AssignedRooms ==
    UNION {SeqRange(ilp_result.assignment_map[g]) : g \in DOMAIN ilp_result.assignment_map}

RECURSIVE SumCounts(_)
SumCounts(G) ==
    IF G = {} THEN 0
    ELSE LET g == CHOOSE h \in G : TRUE
         IN  exam_groups[g + 1].student_count + SumCounts(G \ {g})

\* The name of the table's column that is col in lower case, None if none
TableColumn(col) ==
    IF \E k \in 1..Len(rooms_df.columns) : LowerStrip(rooms_df.columns[k]) = col
    THEN CHOOSE c \in SeqRange(rooms_df.columns) : LowerStrip(c) = col
    ELSE None

\* The leftmost column of the table that names the room
LocationColumn ==
    LET IsLoc(k) == LowerStrip(rooms_df.columns[k]) \in {"location", "id", "room_id", "name"}
    IN  rooms_df.columns[CHOOSE k \in 1..Len(rooms_df.columns) :
                            IsLoc(k) /\ \A n \in 1..(k - 1) : ~ IsLoc(n)]

\* The locations the table lists
TableLocations == {rooms_df.rows[k][LocationColumn] : k \in 1..Len(rooms_df.rows)}

(* The capacity of room r in the table: the capacity cell of the last row    *)
(* whose location is r, and 1 where the table gives no number.               *)
TableCapacity(r) ==
    LET rows == {k \in 1..Len(rooms_df.rows) : rooms_df.rows[k][LocationColumn] = r}
        last == CHOOSE k \in rows : \A n \in rows : n <= k
        cap  == TableColumn("capacity")
    IN  IF cap = None THEN 1
        ELSE IF rooms_df.rows[last][cap].kind = "value" THEN rooms_df.rows[last][cap].v
        ELSE 1

\* The intervals of groups g and h, each widened by tol on both sides, share a minute
WidenedOverlap(g, h, tol) ==
    ShareInstant(exam_groups[g + 1].start_time - tol, exam_groups[g + 1].end_time + tol,
                 exam_groups[h + 1].start_time - tol, exam_groups[h + 1].end_time + tol)

------------------------------------------------------------------------------
(* C8: in every result of build_and_solve_ilp with status OPTIMAL,           *)
(* assignment_map has one entry per group index and each entry lists exactly *)
(* one room.                                                                  *)
C8_OneRoomPerGroup ==
    Returned("OPTIMAL") =>
        /\ DOMAIN ilp_result.assignment_map = 0..(Len(exam_groups) - 1)
        /\ \A g \in DOMAIN ilp_result.assignment_map :
              /\ Len(ilp_result.assignment_map[g]) = 1
              /\ ilp_result.assignment_map[g][1] \in TableLocations

\* An OPTIMAL result for two groups that overlap in time, over three rooms
C8_Witness ==
    /\ Returned("OPTIMAL")
    /\ Len(exam_groups) = 2
    /\ WidenedOverlap(0, 1, 0)
    /\ Len(rooms_df.rows) = 3
    /\ ilp_result.assignment_map[0] # ilp_result.assignment_map[1]

------------------------------------------------------------------------------
(* C9: in every assignment build_and_solve_ilp returns (OPTIMAL, or          *)
(* TIME_LIMIT with an incumbent), for every room the sum of student_count    *)
(* over all groups assigned to it, whatever their time windows, is at most   *)
(* the room's capacity.                                                       *)
C9_Capacity ==
    ReturnedAssignment =>
        \A r \in AssignedRooms : SumCounts(AssignedTo(r)) <= TableCapacity(r)

(* A returned assignment puts two groups that do not overlap in time, also   *)
(* not after widening, in one room and fills it to its capacity.             *)
C9_Witness ==
    /\ ReturnedAssignment
    /\ Len(exam_groups) = 2
    /\ ~ WidenedOverlap(0, 1, tolerance)
    /\ \E r \in AssignedRooms :
          /\ AssignedTo(r) = {0, 1}
          /\ SumCounts(AssignedTo(r)) = TableCapacity(r)

------------------------------------------------------------------------------
(* C10: in every assignment build_and_solve_ilp returns, no two groups whose *)
(* intervals overlap, by the half-open test after both intervals are widened *)
(* by the tolerance, are assigned the same room.                              *)
C10_NoSharedRoom ==
    ReturnedAssignment =>
        \A g, h \in DOMAIN ilp_result.assignment_map :
            (g # h /\ WidenedOverlap(g, h, tolerance)) =>
                SeqRange(ilp_result.assignment_map[g])
                    \cap SeqRange(ilp_result.assignment_map[h]) = {}

(* Two groups that meet only after the tolerance has widened them, 09:00 to  *)
(* 10:00 and 10:00 to 11:00 with a tolerance of 10 minutes, are assigned     *)
(* different rooms although one room could hold both.                         *)
C10_Witness ==
    /\ ReturnedAssignment
    /\ Len(exam_groups) = 2
    /\ tolerance = 10
    /\ ~ WidenedOverlap(0, 1, 0)
    /\ WidenedOverlap(0, 1, tolerance)
    /\ ilp_result.assignment_map[0] # ilp_result.assignment_map[1]
    /\ \E r \in AssignedRooms : SumCounts({0, 1}) <= TableCapacity(r)

------------------------------------------------------------------------------
\* The last row of the table whose location is r
LastRowOf(r) ==
    LET rows == {k \in 1..Len(rooms_df.rows) : rooms_df.rows[k][LocationColumn] = r}
    IN  rooms_df.rows[CHOOSE k \in rows : \A n \in rows : n <= k]

(* The table gives room r an availability window: its start and its end      *)
(* cell both hold a time.                                                     *)
HasWindow(r) ==
    /\ TableColumn("start time") # None
    /\ TableColumn("end time") # None
    /\ LastRowOf(r)[TableColumn("start time")].kind = "value"
    /\ LastRowOf(r)[TableColumn("end time")].kind = "value"

WindowStart(r) == LastRowOf(r)[TableColumn("start time")].v

WindowEnd(r) == LastRowOf(r)[TableColumn("end time")].v

\* The interval of group g lies in the window of room r
InWindow(g, r) ==
    /\ WindowStart(r) <= exam_groups[g + 1].start_time
    /\ exam_groups[g + 1].end_time <= WindowEnd(r)

(* C11: in every assignment build_and_solve_ilp returns, a group is assigned *)
(* to a room that has an availability window only if the group's interval is *)
(* contained in the window: room start <= exam start and exam end <= room    *)
(* end.                                                                       *)
C11_Availability ==
    ReturnedAssignment =>
        \A g \in DOMAIN ilp_result.assignment_map :
            \A r \in SeqRange(ilp_result.assignment_map[g]) :
                HasWindow(r) => InWindow(g, r)

(* Scenario D: a room large enough for the group, whose window starts after  *)
(* the group's start, is passed over for a room whose window contains the    *)
(* group.                                                                     *)
C11_Witness ==
    /\ ReturnedAssignment
    /\ \E g \in DOMAIN ilp_result.assignment_map :
          /\ \E r \in SeqRange(ilp_result.assignment_map[g]) :
                HasWindow(r) /\ InWindow(g, r)
          /\ \E q \in TableLocations :
                /\ HasWindow(q)
                /\ WindowStart(q) > exam_groups[g + 1].start_time
                /\ exam_groups[g + 1].end_time <= WindowEnd(q)
                /\ exam_groups[g + 1].student_count <= TableCapacity(q)

------------------------------------------------------------------------------
(* The assignments of one room of the table to every group that keep the     *)
(* capacity of every room, the window of every room that has one, and put    *)
(* no two groups that overlap, after widening by the tolerance, in one room  *)
ValidAssignments ==
    {a \in [0..(Len(exam_groups) - 1) -> TableLocations] :
        /\ \A r \in TableLocations :
              SumCounts({g \in DOMAIN a : a[g] = r}) <= TableCapacity(r)
        /\ \A g \in DOMAIN a : HasWindow(a[g]) => InWindow(g, a[g])
        /\ \A g, h \in DOMAIN a :
              (g # h /\ WidenedOverlap(g, h, tolerance)) => a[g] # a[h]}

RoomsOf(a) == {a[g] : g \in DOMAIN a}

(* C12: for objective 'minimize_rooms' and status OPTIMAL, the number of     *)
(* distinct rooms in assignment_map is the minimum over all assignments that *)
(* satisfy the one-room-per-group, capacity, availability and pairwise       *)
(* overlap constraints, and objective_value is that number.                  *)
C12_MinimumRooms ==
    (Returned("OPTIMAL") /\ objective = "minimize_rooms") =>
        /\ \A a \in ValidAssignments :
              Cardinality(AssignedRooms) <= Cardinality(RoomsOf(a))
        /\ \E a \in ValidAssignments :
              \A g \in DOMAIN a : ilp_result.assignment_map[g] = <<a[g]>>
        /\ ilp_result.objective_value = <<Cardinality(AssignedRooms), 1>>

(* An OPTIMAL result under 'minimize_rooms' puts two groups in one room      *)
(* where an assignment to two rooms satisfies the constraints too.           *)
C12_Witness ==
    /\ Returned("OPTIMAL")
    /\ objective = "minimize_rooms"
    /\ Len(exam_groups) = 2
    /\ Cardinality(AssignedRooms) = 1
    /\ \E a \in ValidAssignments : Cardinality(RoomsOf(a)) = 2

------------------------------------------------------------------------------
(* C13: the status build_and_solve_ilp returns is always one of OPTIMAL,     *)
(* INFEASIBLE, TIME_LIMIT, NO_EXAMS, NO_ROOMS, ERROR, for every outcome of   *)
(* the solver, and assignment_map is non-empty only when the status is       *)
(* OPTIMAL or TIME_LIMIT.                                                     *)
C13_StatusContract ==
    ilp_pc = "returned" =>
        /\ ilp_result.status \in
              {"OPTIMAL", "INFEASIBLE", "TIME_LIMIT", "NO_EXAMS", "NO_ROOMS", "ERROR"}
        /\ DOMAIN ilp_result.assignment_map # {} =>
              ilp_result.status \in {"OPTIMAL", "TIME_LIMIT"}

------------------------------------------------------------------------------
\* The result of a call that built and solved no model
ShortCircuit(status) ==
    /\ ilp_pc = "returned"
    /\ ilp_result = [assignment_map |-> EmptyDict, status |-> status,
                     objective_value |-> <<0, 1>>, has_model |-> FALSE]
    /\ model = [room_locations |-> <<>>, room_info |-> EmptyDict]

(* C14: with an empty group list build_and_solve_ilp returns NO_EXAMS, also  *)
(* when the room table is empty too; with a non-empty group list and an      *)
(* empty room table it returns NO_ROOMS; in both cases assignment_map is     *)
(* empty, objective_value is 0 and no model is built or solved.              *)
C14_ShortCircuits ==
    ilp_pc \notin {"call", "idle"} =>
        /\ exam_groups = <<>> => ShortCircuit("NO_EXAMS")
        /\ (exam_groups # <<>> /\ rooms_df.rows = <<>>) => ShortCircuit("NO_ROOMS")

\* The call with no groups and no rooms has returned NO_EXAMS
C14_Witness ==
    /\ exam_groups = <<>>
    /\ rooms_df.rows = <<>>
    /\ ShortCircuit("NO_EXAMS")

------------------------------------------------------------------------------
(* C15: build_and_solve_ilp never lets an exception reach its caller: for    *)
(* every non-empty group list and room table, whatever the location,         *)
(* capacity and window values, a fault while building or solving the model   *)
(* surfaces as status ERROR with an empty assignment_map.                    *)
C15_NoExceptionEscapes ==
    /\ ilp_pc # "raised"
    /\ ilp_raised = NoExc
    /\ Returned("ERROR") => DOMAIN ilp_result.assignment_map = {}

------------------------------------------------------------------------------
(* The exam table and the groups made of it *)

GroupsMade == asg_pc \notin {"idle", "group"}

\* The cell holds a time
ValidCell(cell) == cell # Blank

\* The row is SCHEDULED and its start and end are both times
ScheduledWithTimes(row) ==
    /\ row.Schedule_Status = "SCHEDULED"
    /\ ValidCell(row.Scheduled_Start)
    /\ ValidCell(row.Scheduled_End)

\* The start and the end of a row that has both
RowStart(row) == CellTime(row.Scheduled_Start)

RowEnd(row) == CellTime(row.Scheduled_End)

\* The rows of the table, in table order, that a test keeps
RowsAt(start_time, end_time) ==
    LET Keep(row) == /\ ScheduledWithTimes(row)
                     /\ RowStart(row) = start_time
                     /\ RowEnd(row) = end_time
    IN  SelectSeq(exam_df, Keep)

\* The groups that hold the row among their records
GroupsHolding(row) ==
    {g \in 1..Len(groups) :
        \E k \in 1..Len(groups[g].exam_records) : groups[g].exam_records[k] = row}

\* Every group is the class of its (start, end) among the rows with times
GroupsAreClasses ==
    /\ \A g \in 1..Len(groups) :
          /\ groups[g].exam_records = RowsAt(groups[g].start_time, groups[g].end_time)
          /\ groups[g].exam_records # <<>>
          /\ groups[g].student_count = Len(groups[g].exam_records)
          /\ SeqRange(groups[g].crns) =
                {groups[g].exam_records[k].CRN : k \in 1..Len(groups[g].exam_records)}
          /\ Len(groups[g].crns) = Cardinality(SeqRange(groups[g].crns))
    /\ \A g, h \in 1..Len(groups) :
          (groups[g].start_time = groups[h].start_time
              /\ groups[g].end_time = groups[h].end_time) => g = h
    /\ \A k \in 1..Len(exam_df) :
          ~ ScheduledWithTimes(exam_df[k]) => GroupsHolding(exam_df[k]) = {}

(* C16 as stated: every SCHEDULED row is a member of exactly one group of    *)
(* group_exam_timings, and the student counts sum to the number of SCHEDULED *)
(* rows.                                                                      *)
C16_PartitionAsStated ==
    GroupsMade =>
        /\ \A k \in 1..Len(exam_df) :
              exam_df[k].Schedule_Status = "SCHEDULED" =>
                  Cardinality(GroupsHolding(exam_df[k])) = 1
        /\ SumSeq([g \in 1..Len(groups) |-> groups[g].student_count]) =
              Cardinality({k \in 1..Len(exam_df) :
                              exam_df[k].Schedule_Status = "SCHEDULED"})

(* C16: group_exam_timings returns exactly the classes, under equality of    *)
(* (Scheduled Start, Scheduled End), of the SCHEDULED rows whose start and   *)
(* end are both valid times: each such row is in exactly one group, no other *)
(* row is in any group, two rows are in one group iff both instants are      *)
(* equal, student_count is the number of member rows, the counts sum to the  *)
(* number of such rows, and crns lists each member course id once.           *)
C16_Partition ==
    GroupsMade =>
        /\ GroupsAreClasses
        /\ \A k \in 1..Len(exam_df) :
              ScheduledWithTimes(exam_df[k]) =>
                  Cardinality(GroupsHolding(exam_df[k])) = 1
        /\ SumSeq([g \in 1..Len(groups) |-> groups[g].student_count]) =
              Cardinality({k \in 1..Len(exam_df) : ScheduledWithTimes(exam_df[k])})

(* Two students sit the exam of one course at the same time: one group of    *)
(* two members that lists the course once.                                    *)
C16_Witness ==
    /\ GroupsMade
    /\ \E g \in 1..Len(groups) :
          /\ groups[g].student_count = 2
          /\ Len(groups[g].crns) = 1
          /\ groups[g].student_ids[1] # groups[g].student_ids[2]

------------------------------------------------------------------------------
\* The (start, end) keys of a list of groups, in list order
KeysOf(gs) == [g \in 1..Len(gs) |-> <<gs[g].start_time, gs[g].end_time>>]

\* group_exam_timings has just returned
GroupsReturned == asg_pc = "search"

\* The tables that hold the rows of exam_df in another order
Reorderings ==
    {[k \in 1..Len(exam_df) |-> exam_df[p[k]]] : p \in Permutations(1..Len(exam_df))}

(* C17: the list group_exam_timings returns is sorted by start time          *)
(* ascending, groups of equal start by end time, and the index of each group *)
(* is the same for every permutation of the input rows.                      *)
C17_Reproducible ==
    /\ GroupsMade =>
          \A g, h \in 1..Len(groups) :
              g < h => \/ groups[g].start_time < groups[h].start_time
                       \/ /\ groups[g].start_time = groups[h].start_time
                          /\ groups[g].end_time < groups[h].end_time
    /\ GroupsReturned =>
          \A table \in Reorderings : KeysOf(group_exam_timings(table)) = KeysOf(groups)

(* Two exams start together and the table lists the one that ends later      *)
(* first; its group comes second.                                             *)
C17_Witness ==
    /\ GroupsMade
    /\ Len(exam_df) = 2
    /\ Len(groups) = 2
    /\ ScheduledWithTimes(exam_df[1])
    /\ ScheduledWithTimes(exam_df[2])
    /\ RowStart(exam_df[1]) = RowStart(exam_df[2])
    /\ RowEnd(exam_df[1]) > RowEnd(exam_df[2])
    /\ groups[2].end_time = RowEnd(exam_df[1])

------------------------------------------------------------------------------
(* The output of the greedy room assigner *)

\* The rows written so far are the greedy assigner's
GreedyRan ==
    \/ asg_pc = "greedy"
    \/ asg_pc = "done" /\ (~ IlpForm \/ groups = <<>>)

\* The rows written so far are those of apply_ilp_assignments_to_dataframe
ApplyRan ==
    \/ asg_pc = "apply"
    \/ asg_pc = "done" /\ IlpForm /\ groups # <<>> /\ applied_map # EmptyDict

\* The rooms the search listed under the key (start, end), in inventory order
Listed(start_time, end_time) ==
    LET hits == {n \in 1..Len(room_search_results) :
                    /\ room_search_results[n].start_time = start_time
                    /\ room_search_results[n].end_time = end_time}
    IN  IF hits = {} THEN <<>>
        ELSE room_search_results[CHOOSE n \in hits : \A m \in hits : m <= n].available_rooms

(* The rows among the first n of the output that were given the room and     *)
(* have the start and the end                                                 *)
Occupants(start_time, end_time, room, n) ==
    {k \in 1..n :
        /\ asg_out[k].room = room
        /\ ScheduledWithTimes(exam_df[k])
        /\ RowStart(exam_df[k]) = start_time
        /\ RowEnd(exam_df[k]) = end_time}

\* The window of the room dict contains the interval
RoomContains(room, start_time, end_time) ==
    (room.start_time.kind = "value" /\ room.end_time.kind = "value") =>
        (room.start_time.v <= start_time /\ end_time <= room.end_time.v)

\* The listed room qualifies for row k: its window fits and it has a free place
Qualifies(room, k) ==
    /\ RoomContains(room, RowStart(exam_df[k]), RowEnd(exam_df[k]))
    /\ Cardinality(Occupants(RowStart(exam_df[k]), RowEnd(exam_df[k]),
                             room.location, k - 1)) < room.capacity

(* C18: for each SCHEDULED row with valid times _assign_rooms_greedy assigns *)
(* the first room, in inventory order of the rooms listed under the row's    *)
(* (start, end), whose window contains the exam and whose occupant count for *)
(* (start, end, room) is below its capacity; the row gets 'No available      *)
(* rooms with capacity' exactly when no listed room qualifies and 'No rooms  *)
(* available' exactly when no room is listed under that key.                 *)
C18_GreedyFirstFit ==
    GreedyRan =>
        \A k \in 1..Len(asg_out) :
            ScheduledWithTimes(exam_df[k]) =>
                LET rooms == Listed(RowStart(exam_df[k]), RowEnd(exam_df[k]))
                    fit   == {n \in 1..Len(rooms) : Qualifies(rooms[n], k)}
                IN  /\ (asg_out[k].status = "No rooms available") <=> (rooms = <<>>)
                    /\ (asg_out[k].status = "No available rooms with capacity")
                          <=> (rooms # <<>> /\ fit = {})
                    /\ fit # {} =>
                          /\ asg_out[k].status = "Assigned"
                          /\ \E n \in fit :
                                /\ \A m \in fit : n <= m
                                /\ asg_out[k].room = rooms[n].location
                    /\ asg_out[k].status # "Assigned" => asg_out[k].room = ""

(* A row is given the second room listed under its key, a room that is free, *)
(* because the window of the first does not contain the exam, and the row    *)
(* after it finds no room left.                                               *)
C18_Witness ==
    /\ GreedyRan
    /\ Len(asg_out) = 2
    /\ ScheduledWithTimes(exam_df[1])
    /\ LET rooms == Listed(RowStart(exam_df[1]), RowEnd(exam_df[1]))
       IN  /\ Len(rooms) = 2
           /\ ~ RoomContains(rooms[1], RowStart(exam_df[1]), RowEnd(exam_df[1]))
           /\ asg_out[1] = Assigned(rooms[2].location, "Assigned")
    /\ asg_out[2].status = "No available rooms with capacity"

------------------------------------------------------------------------------
\* The room dicts of all search results, in the order of the results
AllListed ==
    Flatten([n \in 1..Len(room_search_results) |-> room_search_results[n].available_rooms])

(* The capacity the greedy assigner can read for a room under a key: the     *)
(* largest capacity of the room dicts of that location listed under the key  *)
GreedyCapacity(start_time, end_time, room) ==
    LET rooms == Listed(start_time, end_time)
        caps  == {rooms[n].capacity : n \in {m \in 1..Len(rooms) : rooms[m].location = room}}
    IN  CHOOSE c \in caps : \A d \in caps : d <= c

(* The capacity of a room in the table the optimizer is given: that of the   *)
(* first room dict of the location among all search results, 1 if there is   *)
(* none                                                                       *)
TableCapacityOf(room) ==
    LET hits == {n \in 1..Len(AllListed) : AllListed[n].location = room}
    IN  IF hits = {} THEN 1
        ELSE AllListed[CHOOSE n \in hits : \A m \in hits : n <= m].capacity

\* The rows that have been given a room
RowsWithRoom == {k \in 1..Len(asg_out) : asg_out[k].room # ""}

\* The number of rows, among the first n, that share start, end and room with row k
Sharing(k, n) ==
    Cardinality(Occupants(RowStart(exam_df[k]), RowEnd(exam_df[k]), asg_out[k].room, n))

(* C19: in the output of apply_ilp_assignments_to_dataframe and of           *)
(* _assign_rooms_greedy, after any prefix of the rows, for every (start,     *)
(* end, room) the number of rows assigned the room is at most the room's     *)
(* capacity; a row that would exceed it is left without a room and marked    *)
(* 'All assigned rooms at capacity' (ILP form) or 'No available rooms with   *)
(* capacity' (greedy form).                                                   *)
C19_NeverOverbooked ==
    /\ GreedyRan =>
          \A k \in 1..Len(asg_out) :
              /\ k \in RowsWithRoom =>
                    /\ asg_out[k].status = "Assigned"
                    /\ Sharing(k, Len(asg_out)) <=
                          GreedyCapacity(RowStart(exam_df[k]), RowEnd(exam_df[k]),
                                         asg_out[k].room)
              /\ asg_out[k].status = "No available rooms with capacity" =>
                    asg_out[k].room = ""
    /\ ApplyRan =>
          \A k \in 1..Len(asg_out) :
              /\ k \in RowsWithRoom =>
                    /\ asg_out[k].status = "Assigned (ILP)"
                    /\ Sharing(k, Len(asg_out)) <= TableCapacityOf(asg_out[k].room)
              /\ asg_out[k].status = "All assigned rooms at capacity" =>
                    /\ asg_out[k].room = ""
                    /\ \A g \in 1..Len(groups) :
                          (groups[g].start_time = RowStart(exam_df[k])
                              /\ groups[g].end_time = RowEnd(exam_df[k])) =>
                              \A n \in 1..Len(applied_map[g - 1]) :
                                  Cardinality(Occupants(RowStart(exam_df[k]),
                                                        RowEnd(exam_df[k]),
                                                        applied_map[g - 1][n], k - 1))
                                      >= TableCapacityOf(applied_map[g - 1][n])

(* The assignment map puts a group of two in a room of capacity 1: the first *)
(* row gets the room, the second is marked and left without a room.          *)
C19_Witness ==
    /\ ApplyRan
    /\ Len(asg_out) = 2
    /\ asg_out[1].status = "Assigned (ILP)"
    /\ TableCapacityOf(asg_out[1].room) = 1
    /\ asg_out[2] = Assigned("", "All assigned rooms at capacity")

------------------------------------------------------------------------------
(* C20: the greedy heuristic meets the non-overlap contract of the exact     *)
(* optimizer: in the output of _assign_rooms_greedy no room is assigned to   *)
(* two exams whose time intervals overlap but whose (start, end) pairs       *)
(* differ.                                                                    *)
C20_GreedyNoOverlap ==
    GreedyRan =>
        \A k, n \in RowsWithRoom :
            (/\ asg_out[k].room = asg_out[n].room
             /\ <<RowStart(exam_df[k]), RowEnd(exam_df[k])>>
                   # <<RowStart(exam_df[n]), RowEnd(exam_df[n])>>)
                => ~ ShareInstant(RowStart(exam_df[k]), RowEnd(exam_df[k]),
                                  RowStart(exam_df[n]), RowEnd(exam_df[n]))

------------------------------------------------------------------------------
(* The table assign_rooms returns *)

\* The values of the column Room Assignment Status the specification lists
StatusVocabulary ==
    {"Assigned", "Assigned (ILP)", "No room needed - exam not scheduled",
     "Invalid time slot", "No rooms available", "No rooms assigned by ILP",
     "No available rooms with capacity", "All assigned rooms at capacity"}

(* C21: when assign_rooms has returned, in either form and whatever the      *)
(* solver answered, the output has one row per input row, every row's Room   *)
(* Assignment Status is one of the listed values, a row whose Schedule       *)
(* Status is not SCHEDULED has 'No room needed - exam not scheduled', and a  *)
(* row has a room only with the status 'Assigned' or 'Assigned (ILP)'.       *)
C21_OutputVocabulary ==
    asg_pc = "done" =>
        /\ Len(asg_out) = Len(exam_df)
        /\ \A k \in 1..Len(asg_out) :
              /\ asg_out[k].status \in StatusVocabulary
              /\ exam_df[k].Schedule_Status # "SCHEDULED"
                    => asg_out[k].status = "No room needed - exam not scheduled"
              /\ asg_out[k].room # ""
                    => asg_out[k].status \in {"Assigned", "Assigned (ILP)"}

------------------------------------------------------------------------------
(* The greedy assigner as a function of the table and the search results *)

\* What the greedy loop has written and booked after the first n rows
RECURSIVE GreedyUpTo(_)
GreedyUpTo(n) ==
    IF n = 0 THEN [out |-> <<>>, usage |-> EmptyDict]
    ELSE LET prev       == GreedyUpTo(n - 1)
             row        == exam_df[n]
             start_time == to_datetime_coerce(row.Scheduled_Start)
             end_time   == to_datetime_coerce(row.Scheduled_End)
             rooms      == DictGet(RoomMap(room_search_results, Len(room_search_results)),
                                   <<start_time.v, end_time.v>>, <<>>)
             choice     == GreedyChoice(rooms, prev.usage, start_time.v, end_time.v)
             usage_key  == <<start_time.v, end_time.v, rooms[choice].location>>
             unassigned(status) ==
                 [out |-> Append(prev.out, Assigned("", status)), usage |-> prev.usage]
         IN  IF row.Schedule_Status # "SCHEDULED"
             THEN unassigned("No room needed - exam not scheduled")
             ELSE IF isna(start_time) \/ isna(end_time)
             THEN unassigned("Invalid time slot")
             ELSE IF rooms = <<>> THEN unassigned("No rooms available")
             ELSE IF choice = 0 THEN unassigned("No available rooms with capacity")
             ELSE [out   |-> Append(prev.out, Assigned(rooms[choice].location, "Assigned")),
                   usage |-> DictSet(prev.usage, usage_key,
                                     Append(DictGet(prev.usage, usage_key, <<>>),
                                            row.Student_ID))]

\* The rows the greedy assigner gives for the table and the search results
GreedyResult == GreedyUpTo(Len(exam_df)).out

(* C22: a second run of _assign_rooms_greedy on the table the first run      *)
(* wrote into, with the same room search results, writes the same rooms and  *)
(* the same statuses as the first run.                                       *)
C22_GreedyRepeatable ==
    (asg_pc = "done" /\ runs = 2) => asg_out = first_out

(* Witness: both runs are over; the first row took the only seat of its      *)
(* room, so that the second row found its rooms full, in both runs.          *)
C22_Witness ==
    /\ asg_pc = "done"
    /\ runs = 2
    /\ Len(asg_out) = 2
    /\ asg_out[1].status = "Assigned"
    /\ asg_out[2].status = "No available rooms with capacity"
    /\ first_out = asg_out

(* C23: when the optimizer was asked for and is installed and                *)
(* build_and_solve_ilp returned the status ERROR, assign_rooms returns what  *)
(* the greedy assigner gives.                                                *)
C23_ErrorFallsBack ==
    (asg_pc = "done" /\ ilp_status = "ERROR") => asg_out = GreedyResult

(* C24: when the optimizer was not asked for, or was asked for and is not    *)
(* installed, assign_rooms ends without an optimizer result and returns      *)
(* exactly what the greedy assigner gives.                                   *)
C24_GreedyWithoutOptimizer ==
    (asg_pc = "done" /\ (~ use_ilp \/ ~ GUROBI_AVAILABLE)) =>
        /\ asg_out = GreedyResult
        /\ ilp_status = None
        /\ applied_map = EmptyDict

(* Witness: the optimizer was asked for and is not installed, there are      *)
(* groups and rooms, and the greedy assigner has given a room.               *)
C24_Witness ==
    /\ asg_pc = "done"
    /\ use_ilp
    /\ ~ GUROBI_AVAILABLE
    /\ groups # <<>>
    /\ _prepare_rooms_dataframe(room_search_results).rows # <<>>
    /\ \E k \in 1..Len(asg_out) : asg_out[k].status = "Assigned"

------------------------------------------------------------------------------
(* Requests that cannot be parsed *)

(* The instructor date/time of the row is text dateutil and the four time    *)
(* formats reject, or its duration is in none of the forms "h:mm", number    *)
(* of minutes, decimal number.                                               *)
Unparseable(row) ==
    \/ parse_datetime(row.date, row.time, today).exc
    \/ row.Duration.kind = "text"
    \/ row.Duration.kind = "colon" /\ ~ row.Duration.numeric

(* C25: a request whose instructor date/time or duration cannot be parsed    *)
(* ends at once in the failure state 'Invalid instructor date/time': its     *)
(* output row has that status, it is never SCHEDULED, the committed          *)
(* intervals of its student are what they were before it, and it does not    *)
(* end the run with an exception.                                            *)
C25_ParseFailureIsTerminal ==
    /\ \A k \in 1..Len(results) :
          Unparseable(df[k]) =>
              /\ results[k].Schedule_Status = "Invalid instructor date/time"
              /\ CommittedUpTo(df[k].sid, k) = CommittedUpTo(df[k].sid, k - 1)
    /\ pc = "raised" => ~ Unparseable(df[i + 1])

------------------------------------------------------------------------------
(* schedule_all as a function of the request table and the loaded timetable *)

\* The timetable as load_timetable returns it: no slot carries a CRN
Untagged(tt) ==
    [s \in DOMAIN tt |-> [k \in 1..Len(tt[s]) |-> [tt[s][k] EXCEPT !.crn = None]]]

\* The output rows and the committed intervals after the first n rows
RECURSIVE ScheduleUpTo(_, _, _)
ScheduleUpTo(rows, tt, n) ==
    IF n = 0 THEN [results |-> <<>>, exams |-> EmptyDict]
    ELSE LET prev == ScheduleUpTo(rows, tt, n - 1)
             row  == rows[n]
             r    == schedule_exam(row, DictGet(tt, row.sid, <<>>),
                                   DictGet(prev.exams, row.sid, <<>>), today)
         IN  [results |-> Append(prev.results, OutRow(row, r)),
              exams   |-> Commit(prev.exams, row.sid, r)]

\* What schedule_all returns for the table when given a newly loaded timetable
FreshResults ==
    ScheduleUpTo(df, tag_slots_with_crn(df, Untagged(timetable)), Len(df)).results

(* C26: the table a call of schedule_all returns is the one the same request *)
(* table gives with a newly loaded timetable, whatever request table an      *)
(* earlier call with the same timetable object was given.                    *)
C26_NoEarlierRunInfluence ==
    (pc = "returned" /\ sched_runs = 2) => results = FreshResults

------------------------------------------------------------------------------
(* The candidate list of a request *)

\* The instructor date/time of row k parses to a datetime
Parsed(k) ==
    LET p == parse_datetime(df[k].date, df[k].time, today)
    IN  ~ p.exc /\ ~ p.none

\* The candidate list build_candidates gives for row k
CandidatesOf(k) ==
    build_candidates(df[k], parse_datetime(df[k].date, df[k].time, today).dt)

InstructorTime(k) == parse_datetime(df[k].date, df[k].time, today).dt

\* The start times the options of the specification give for the flags set
OptionStarts(row, inst_dt) ==
    {Combine(DateOf(inst_dt + rules[n].offset * MinutesPerDay), rules[n].fixed_time) :
        n \in {m \in 1..Len(rules) : rules[m].col \in row.Y}}
    \cup {Combine(DateOf(inst_dt + d * MinutesPerDay), Time(8, 0)) :
             d \in {e \in 1..7 : "8:00 am up to a week AFTER the exam" \in row.Y}}
    \cup {Combine(DateOf(inst_dt + d * MinutesPerDay), Time(17, 0)) :
             d \in {e \in 1..7 : "5:00 pm up to a week AFTER the exam" \in row.Y}}

(* C27: build_candidates returns the instructor time followed by exactly the *)
(* candidates of the options whose own flag is set: one candidate for each   *)
(* set day-of, day-before and day-after flag, the 08:00 candidates of the    *)
(* days 1..7 after iff the 8:00 am week-after flag is set, and the 17:00     *)
(* candidates of the days 1..7 after iff the 5:00 pm week-after flag is set. *)
C27_CandidatesPerFlag ==
    \A k \in 1..Len(results) :
        Parsed(k) =>
            LET c == CandidatesOf(k)
            IN  /\ c[1].dt = InstructorTime(k)
                /\ {c[n].dt : n \in 2..Len(c)} = OptionStarts(df[k], InstructorTime(k))

\* The position of a column in the row
ColumnPos(row, col) == CHOOSE n \in 1..Len(row.index) : row.index[n] = col

(* The option a candidate after the first belongs to: the column its label   *)
(* names, and for a week-after candidate the week-after option of its time   *)
(* of day.                                                                    *)
OptionOf(c) ==
    IF \E n \in 1..Len(rules) : rules[n].col = c.label THEN c.label
    ELSE IF TimeOf(c.dt) = Time(8, 0) THEN "8:00 am up to a week AFTER the exam"
    ELSE "5:00 pm up to a week AFTER the exam"

(* C28: after the instructor time the candidates come option by option in    *)
(* the order of the request's flag columns, the candidates of a week-after   *)
(* option come in ascending day order, and no two candidates of the list     *)
(* have the same label.                                                      *)
C28_CandidateOrder ==
    \A k \in 1..Len(results) :
        Parsed(k) =>
            LET c == CandidatesOf(k)
            IN  /\ \A m, n \in 2..Len(c) :
                      m < n =>
                          /\ ColumnPos(df[k], OptionOf(c[m]))
                                <= ColumnPos(df[k], OptionOf(c[n]))
                          /\ OptionOf(c[m]) = OptionOf(c[n]) => c[m].dt <= c[n].dt
                /\ \A m, n \in 1..Len(c) : m # n => c[m].label # c[n].label

------------------------------------------------------------------------------
(* C29: when the solver stopped on the time limit with an incumbent, the     *)
(* status is TIME_LIMIT and assignment_map holds, for every group, exactly   *)
(* the room the incumbent puts it in, with the incumbent's objective value;  *)
(* when it stopped with no incumbent, assignment_map is empty and            *)
(* objective_value is None.                                                  *)
C29_TimeLimit ==
    (ilp_pc = "returned" /\ solver.status = "TIME_LIMIT") =>
        /\ ilp_result.status = "TIME_LIMIT"
        /\ solver.SolCount > 0 =>
              /\ DOMAIN ilp_result.assignment_map = GroupIndex
              /\ \A g \in GroupIndex :
                    /\ Len(ilp_result.assignment_map[g]) = 1
                    /\ solver.X[<<g, ilp_result.assignment_map[g][1]>>] = 1
              /\ ilp_result.objective_value # NoValue
        /\ solver.SolCount = 0 =>
              /\ ilp_result.assignment_map = EmptyDict
              /\ ilp_result.objective_value = NoValue

(* Witness: the solver stopped on the time limit with an incumbent for two   *)
(* groups that is not an optimal solution, and its rooms were returned.      *)
C29_Witness ==
    /\ ilp_pc = "returned"
    /\ solver.status = "TIME_LIMIT"
    /\ solver.SolCount > 0
    /\ Len(exam_groups) = 2
    /\ DOMAIN ilp_result.assignment_map = GroupIndex
    /\ \E sol \in Optimal(model.room_locations, model.room_info) :
          ObjVal(sol, model.room_locations, model.room_info)[1]
              < ilp_result.objective_value[1]

------------------------------------------------------------------------------
\* Some solution of the model puts group g in room r
CanTake(g, r) ==
    \E sol \in Feasible(model.room_locations, model.room_info) : sol.x[<<g, r>>] = 1

(* C30: under 'minimize_weighted', when the only group can be placed in      *)
(* either of two rooms that differ in nothing but their capacity, a result   *)
(* with status OPTIMAL has the group in the room of the smaller capacity,    *)
(* not in the larger one.                                                    *)
C30_PrefersSmallerRoom ==
    (Returned("OPTIMAL") /\ objective = "minimize_weighted" /\ Len(exam_groups) = 1) =>
        \A small, large \in SeqRange(model.room_locations) :
            ( /\ CanTake(0, small)
              /\ CanTake(0, large)
              /\ model.room_info[small].start_time = model.room_info[large].start_time
              /\ model.room_info[small].end_time = model.room_info[large].end_time
              /\ model.room_info[small].capacity < model.room_info[large].capacity )
            => ilp_result.assignment_map[0] # <<large>>

------------------------------------------------------------------------------
(* The pairs of intervals the candidate loop has put to the overlap test *)

\* The class slots of a student on the weekday of dt, laid on the date of dt
SlotIntervals(sid, dt) ==
    LET slots == DictGet(timetable, sid, <<>>)
    IN  {<<Combine(DateOf(dt), slots[n].st), Combine(DateOf(dt), slots[n].et)>> :
            n \in {m \in 1..Len(slots) : slots[m].wd = Weekday(dt)}}

(* <<s1, e1, s2, e2>> for every candidate of the processed row k and every   *)
(* interval it is compared with: the student's class slots and the           *)
(* intervals committed before the row.                                       *)
Compared(k) ==
    LET c        == CandidatesOf(k)
        duration == parse_duration(df[k].Duration).minutes
        earlier  == CommittedUpTo(df[k].sid, k - 1)
    IN  UNION { { <<c[n].dt, c[n].dt + duration, q[1], q[2]>> :
                    q \in SlotIntervals(df[k].sid, c[n].dt) \cup SeqRange(earlier) }
                : n \in 1..Len(c) }

ComparedPairs == UNION {Compared(k) : k \in {n \in 1..Len(results) : Parsed(n)}}

(* C31: as stated - overlaps returns true exactly when start1 < end2 and     *)
(* start2 < end1, for all intervals with start <= end, empty ones included.  *)
C31_OverlapsAsStated ==
    \A q \in ComparedPairs :
        (q[1] <= q[2] /\ q[3] <= q[4]) =>
            (overlaps(q[1], q[2], q[3], q[4]) <=> SpecOverlap(q[1], q[2], q[3], q[4]))

(* C31, amended: overlaps returns true exactly when the two half-open        *)
(* intervals have an instant in common; that is the test start1 < end2 and   *)
(* start2 < end1 for all pairs of intervals with start < end, and it is      *)
(* false whenever one of the intervals is empty.                             *)
C31_Overlaps ==
    \A q \in ComparedPairs :
        (q[1] <= q[2] /\ q[3] <= q[4]) =>
            /\ overlaps(q[1], q[2], q[3], q[4]) <=> ShareInstant(q[1], q[2], q[3], q[4])
            /\ (q[1] < q[2] /\ q[3] < q[4]) =>
                  (overlaps(q[1], q[2], q[3], q[4])
                      <=> SpecOverlap(q[1], q[2], q[3], q[4]))
            /\ (q[1] = q[2] \/ q[3] = q[4]) => ~ overlaps(q[1], q[2], q[3], q[4])

(* Witness: the loop has compared a pair of non-empty intervals that         *)
(* overlap, a pair of non-empty intervals that do not, and an empty          *)
(* interval with an interval it lies strictly inside.                        *)
C31_Witness ==
    /\ \E q \in ComparedPairs : q[1] < q[2] /\ q[3] < q[4] /\ overlaps(q[1], q[2], q[3], q[4])
    /\ \E q \in ComparedPairs : q[1] < q[2] /\ q[3] < q[4] /\ ~ overlaps(q[1], q[2], q[3], q[4])
    /\ \E q \in ComparedPairs : q[1] = q[2] /\ q[3] < q[1] /\ q[1] < q[4]

------------------------------------------------------------------------------
(* The minutes the specification gives a duration cell: 60*H + MM for        *)
(* "H:MM", the number for an integer string, hours * 60 for a decimal        *)
(* string (tenths/10 hours are tenths * 6 minutes).                          *)
SpecMinutes(value) ==
    IF value.kind = "colon" THEN value.h * 60 + value.m
    ELSE IF value.tenths % 10 = 0 THEN value.tenths \div 10
    ELSE value.tenths * 6

(* C32: an exam SCHEDULED from a duration "H:MM" lasts 60*H + MM minutes,    *)
(* from an integer string that many minutes, and from a decimal-hours        *)
(* string hours * 60 minutes ("1.5" gives 90).                               *)
C32_DurationMinutes ==
    \A k \in 1..Len(results) :
        ( /\ IsScheduled(results[k])
          /\ \/ df[k].Duration.kind = "colon" /\ df[k].Duration.numeric
             \/ df[k].Duration.kind = "number" )
        => EndOf(results[k]) - StartOf(results[k]) = SpecMinutes(df[k].Duration)

------------------------------------------------------------------------------
(* The student's timetable in Runner.pipeline: the slots the timetable file  *)
(* holds for the student, with the slots of the table's courses tagged.      *)
FileSlots(sid) == DictGet(tag_slots_with_crn(df, load_timetable(timetable)), sid, <<>>)

(* C33: every exam Runner.pipeline reports as SCHEDULED overlaps no class    *)
(* slot of its student's timetable on the weekday of the exam, except a      *)
(* slot of its own course.                                                   *)
C33_RunnerHonoursTimetable ==
    \A k \in 1..Len(results) :
        IsScheduled(results[k]) =>
            TimetableNonConflict(FileSlots(df[k].sid), df[k].crn,
                                 StartOf(results[k]), EndOf(results[k]))

------------------------------------------------------------------------------
(* C34: the optimizer's OPTIMAL result applied to the table it was built from *)

\* The room table _assign_rooms_ilp hands to the optimizer and to the apply step
PreparedTable == _prepare_rooms_dataframe(room_search_results)

PreparedInfo ==
    RoomInfo(PreparedTable, _normalize_room_columns(PreparedTable.columns),
             Len(PreparedTable.rows))

PreparedLocations ==
    RoomLocations(PreparedTable, _normalize_room_columns(PreparedTable.columns))

(* am is an assignment_map an OPTIMAL result of build_and_solve_ilp can carry *)
(* for the groups and the prepared room table (tolerance 0, the default of    *)
(* line 19): one room per group, and constraints 2, 3 and 4 hold.            *)
SolverMap(am) ==
    LET locs == PreparedLocations
        info == PreparedInfo
        In(g, r) == am[g - 1] = <<r>>
    IN  /\ DOMAIN am = 0..(Len(groups) - 1)
        /\ \A r \in SeqRange(locs) : r \in DOMAIN info
        /\ \A g \in 1..Len(groups) : \E r \in SeqRange(locs) : In(g, r)
        /\ \A r \in SeqRange(locs) :
              SumSeq([g \in 1..Len(groups) |->
                         IF In(g, r) THEN groups[g].student_count ELSE 0])
                  <= info[r].capacity
        /\ \A g \in 1..Len(groups) : \A r \in SeqRange(locs) :
              (In(g, r) /\ info[r].start_time.kind # "none"
                        /\ info[r].end_time.kind # "none") =>
                  /\ ~ Before(Stamp(groups[g].start_time), info[r].start_time)
                  /\ ~ Before(info[r].end_time, Stamp(groups[g].end_time))
        /\ \A g \in 1..Len(groups) : \A h \in 1..Len(groups) : \A r \in SeqRange(locs) :
              (g < h /\ In(g, r) /\ In(h, r)) => ~ _exams_overlap(groups[g], groups[h], 0)

\* The apply step runs on an OPTIMAL result of the optimizer
AppliedOptimal == ApplyRan /\ ilp_status = "OPTIMAL" /\ SolverMap(applied_map)

\* The position in groups of the group of row k
GroupPos(k) ==
    CHOOSE g \in 1..Len(groups) :
        /\ groups[g].start_time = RowStart(exam_df[k])
        /\ groups[g].end_time = RowEnd(exam_df[k])

(* C34: when the optimizer returned OPTIMAL for the groups of the table,     *)
(* every SCHEDULED row with a valid start and end is 'Assigned (ILP)' to the *)
(* one room the solver chose for its group, so the members of a group share  *)
(* a room and neither 'All assigned rooms at capacity' nor 'No rooms         *)
(* assigned by ILP' is the status of a SCHEDULED row with valid times.       *)
C34_OptimalIsApplied ==
    AppliedOptimal =>
        \A k \in 1..Len(asg_out) :
            (exam_df[k].Schedule_Status = "SCHEDULED"
                /\ ~ isna(to_datetime_coerce(exam_df[k].Scheduled_Start))
                /\ ~ isna(to_datetime_coerce(exam_df[k].Scheduled_End))) =>
                /\ asg_out[k] = Assigned(applied_map[GroupPos(k) - 1][1], "Assigned (ILP)")
                /\ \A n \in 1..Len(asg_out) :
                      (exam_df[n].Schedule_Status = "SCHEDULED"
                          /\ exam_df[n].Scheduled_Start = exam_df[k].Scheduled_Start
                          /\ exam_df[n].Scheduled_End = exam_df[k].Scheduled_End) =>
                          asg_out[n].room = asg_out[k].room

\* Two members of one group were given the group's room, which holds both
C34_Witness ==
    /\ AppliedOptimal
    /\ asg_pc = "done"
    /\ Len(asg_out) = 2
    /\ Len(groups) = 1
    /\ groups[1].student_count = 2
    /\ \A k \in 1..2 : asg_out[k] = Assigned(applied_map[0][1], "Assigned (ILP)")

------------------------------------------------------------------------------
(* C35: INFEASIBLE exactly when the constraints have no solution *)

\* The solver came to a conclusion about the model: no limit, fault or interrupt
SolverConcluded ==
    /\ ilp_pc = "returned"
    /\ solver.status \notin {None, "TIME_LIMIT", "GurobiError", "INTERRUPTED"}

(* C35: build_and_solve_ilp returns INFEASIBLE with an empty assignment_map  *)
(* exactly when no assignment of the groups to the rooms satisfies the       *)
(* constraints; the capacity of a room bounds the sum of the student counts  *)
(* of all groups put in it, disjoint in time or not, so two such groups      *)
(* share a single room when the sum fits and the result is INFEASIBLE when   *)
(* only each group alone fits.                                               *)
C35_InfeasibleExactly ==
    SolverConcluded =>
        /\ (ilp_result.status = "INFEASIBLE" /\ ilp_result.assignment_map = EmptyDict)
               <=> Feasible(model.room_locations, model.room_info) = {}
        /\ \A r \in SeqRange(model.room_locations) :
              (/\ Len(exam_groups) = 2
               /\ model.room_locations = <<r>>
               /\ ~ _exams_overlap(exam_groups[1], exam_groups[2], tolerance)
               /\ \A g \in 1..2 : \A x \in [{<<g - 1, r>>} -> {1}] :
                      availability(x, model.room_info, g - 1, r))
              => IF exam_groups[1].student_count + exam_groups[2].student_count
                       <= model.room_info[r].capacity
                 THEN ilp_result.assignment_map = [g \in {0, 1} |-> <<r>>]
                 ELSE ilp_result.status = "INFEASIBLE"

------------------------------------------------------------------------------
(* C36: the overlap test of the optimizer and its tolerance *)

\* The gap between two groups: negative when they share more than an instant
Gap(g, h) == Max(g.start_time, h.start_time) - Min(g.end_time, h.end_time)

\* Groups g and h (positions in exam_groups) are in the same room of the result
SameRoom(g, h) ==
    /\ ilp_result.assignment_map # EmptyDict
    /\ \E r \in SeqRange(ilp_result.assignment_map[g - 1]) :
          r \in SeqRange(ilp_result.assignment_map[h - 1])

(* C36: _exams_overlap(g1, g2, t) is true exactly when                        *)
(* max(start1, start2) - min(end1, end2) < 2 * t minutes.  With tolerance 0   *)
(* two groups of which one ends when the other starts do not overlap, with a  *)
(* tolerance t > 0 two groups less than 2 * t apart do, and no result puts    *)
(* two overlapping groups in the same room.                                   *)
C36_OverlapTolerance ==
    \A g \in 1..Len(exam_groups) : \A h \in 1..Len(exam_groups) :
        /\ _exams_overlap(exam_groups[g], exam_groups[h], tolerance)
               <=> Gap(exam_groups[g], exam_groups[h]) < 2 * tolerance
        /\ (tolerance = 0 /\ Gap(exam_groups[g], exam_groups[h]) = 0) =>
               ~ _exams_overlap(exam_groups[g], exam_groups[h], tolerance)
        /\ (g # h /\ ilp_pc = "returned"
                  /\ Gap(exam_groups[g], exam_groups[h]) < 2 * tolerance) =>
               ~ SameRoom(g, h)

(* With tolerance 0 the groups 09:00-10:00 and 10:00-11:00 were given the     *)
(* same room by an OPTIMAL result.                                            *)
C36_Witness ==
    /\ ilp_pc = "returned"
    /\ ilp_result.status = "OPTIMAL"
    /\ tolerance = 0
    /\ Len(exam_groups) = 2
    /\ Gap(exam_groups[1], exam_groups[2]) = 0
    /\ exam_groups[1].start_time < exam_groups[1].end_time
    /\ exam_groups[2].start_time < exam_groups[2].end_time
    /\ SameRoom(1, 2)

------------------------------------------------------------------------------
(* C37: what the tagging pass leaves on the slots *)

\* The positions of the slots of sid on weekday wd that start close to class_start
MatchingSlots(sid, wd, class_start) ==
    {n \in 1..Len(timetable[sid]) :
        /\ timetable[sid][n].wd = wd
        /\ times_close(timetable[sid][n].st, class_start)}

(* C37: after tag_slots_with_crn, for every request row whose student has a  *)
(* slot on one of the row's weekdays that starts within 5 minutes of the     *)
(* row's class start, the first such slot in list order carries the row's    *)
(* course id, whatever other rows of the same student are in the table.      *)
C37_TagsOwnSlot ==
    pc \notin {"tag", "idle"} =>
        \A k \in 1..Len(df) :
            (df[k].sid \in DOMAIN timetable /\ ~ parse_time(df[k].class_start).exc) =>
                \A d \in SeqRange(df[k].days) :
                    d \in DOMAIN DAYMAP =>
                        LET hits == MatchingSlots(df[k].sid, DAYMAP[d],
                                                  parse_time(df[k].class_start).t)
                        IN  hits # {} =>
                               timetable[df[k].sid][CHOOSE m \in hits :
                                                       \A n \in hits : m <= n].crn
                                   = df[k].crn

------------------------------------------------------------------------------
(* C38: what one step of schedule_all changes *)

\* The slots of both timetables agree in number, weekday and times
SameSlots(tt1, tt2) ==
    /\ DOMAIN tt1 = DOMAIN tt2
    /\ \A sid \in DOMAIN tt1 :
          /\ Len(tt1[sid]) = Len(tt2[sid])
          /\ \A n \in 1..Len(tt1[sid]) :
                /\ tt1[sid][n].wd = tt2[sid][n].wd
                /\ tt1[sid][n].st = tt2[sid][n].st
                /\ tt1[sid][n].et = tt2[sid][n].et

\* A step of one call of schedule_all: the tagging pass or one row of the loop
C38_Step ==
    sched_runs' = sched_runs =>
        /\ pc = "tag" => (SameSlots(timetable, timetable')
                             /\ exams_for_student' = exams_for_student)
        /\ pc # "tag" => timetable' = timetable
        /\ Len(results') = Len(results) + 1 =>
              LET out == results'[Len(results')]
                  sid == df[Len(results')].sid
              IN  /\ \A other \in Students \ {sid} :
                        DictGet(exams_for_student', other, <<>>)
                            = DictGet(exams_for_student, other, <<>>)
                  /\ DictGet(exams_for_student', sid, <<>>) =
                        IF IsScheduled(out)
                        THEN Append(DictGet(exams_for_student, sid, <<>>),
                                    <<StartOf(out), EndOf(out)>>)
                        ELSE DictGet(exams_for_student, sid, <<>>)
        /\ Len(results') = Len(results) => exams_for_student' = exams_for_student

(* C38: processing one request changes only the committed-interval list of   *)
(* that request's student: SCHEDULED appends exactly its (start, end), any   *)
(* other outcome changes no list, the lists of the other students and every  *)
(* timetable slot stay as they are; the tagging pass changes only tags, not  *)
(* the weekday, the times or the number of the slots.                        *)
C38_Frame == [][C38_Step]_vars

(* Two students have a committed exam each, and the tagging pass has tagged  *)
(* a slot.                                                                   *)
C38_Witness ==
    /\ pc = "returned"
    /\ Len(results) = 2
    /\ \A sid \in Students : Len(DictGet(exams_for_student, sid, <<>>)) = 1
    /\ \E sid \in DOMAIN timetable : \E n \in 1..Len(timetable[sid]) :
          timetable[sid][n].crn # None

------------------------------------------------------------------------------
(* C39: the rows of other students do not influence a student's results *)

\* The rows of student s, in table order
OwnRows(s) == LET Own(row) == row.sid = s IN SelectSeq(df, Own)

\* What the output row tells about the request
Outcome(out) ==
    <<out.Schedule_Status, out.Scheduled_Start, out.Scheduled_End, out.Scheduled_Label>>

\* The outcomes of the rows of s among the output rows outs of the request rows
OutcomesOf(s, outs) ==
    LET Own(out) == out.row.sid = s
        own == SelectSeq(outs, Own)
    IN  [k \in 1..Len(own) |-> Outcome(own[k])]

\* schedule_all on the rows of s alone, with the same timetable
Alone(s) ==
    ScheduleUpTo(OwnRows(s), tag_slots_with_crn(OwnRows(s), timetable),
                 Len(OwnRows(s)))

\* schedule_exam raises on one of the rows of s when they are scheduled alone
AloneRaises(s) ==
    LET rows == OwnRows(s)
        tt   == tag_slots_with_crn(rows, timetable)
    IN  \E n \in 1..Len(rows) :
           schedule_exam(rows[n], DictGet(tt, s, <<>>),
                         DictGet(ScheduleUpTo(rows, tt, n - 1).exams, s, <<>>),
                         today).kind = "raise"

(* C39: for any student s the outcomes (status, start, end, label) of the    *)
(* rows of s are those schedule_all gives for the rows of s alone, in their  *)
(* order: rows of other students, wherever they stand in the table, change   *)
(* nothing.                                                                  *)
C39_OtherStudentsIrrelevant ==
    pc \in {"returned", "raised"} =>
        \A s \in Students :
            (OwnRows(s) # <<>> /\ ~ AloneRaises(s)) =>
                /\ pc = "returned"
                /\ OutcomesOf(s, results) = OutcomesOf(s, Alone(s).results)

------------------------------------------------------------------------------
(* C40: several rows of the room table for one location *)

\* Row k of the room table is a row of location r whose window contains group g
WindowRow(k, g, r) ==
    LET col_map == _normalize_room_columns(rooms_df.columns)
        row     == rooms_df.rows[k]
        from    == RoomTime(row, col_map.start_time)
        to      == RoomTime(row, col_map.end_time)
    IN  /\ StrStrip(row[col_map.location]) = r
        /\ from.kind = "value" /\ from.v <= Group(g).start_time
        /\ to.kind = "value" /\ Group(g).end_time <= to.v

\* x with group g in room r
Placed(g, r) == [p \in {<<g, r>>} |-> 1]

(* C40: when the room table has several rows for one location, one for each  *)
(* availability window, the model lets a group into that room whenever the   *)
(* group's interval lies within the window of at least one of those rows.    *)
C40_EveryWindowHonoured ==
    ilp_pc \in {"solve", "returned"} =>
        \A g \in GroupIndex : \A r \in SeqRange(model.room_locations) :
            (\E k \in 1..Len(rooms_df.rows) : WindowRow(k, g, r)) =>
                availability(Placed(g, r), model.room_info, g, r)

==============================================================================
